---- MODULE Spec2Model ----
(***************************************************************************)
(* Model of the learn pipeline of minerva (src/src/minerva/minerva.py)     *)
(* with the graph store it writes through Neo4jDriver                      *)
(* (src/src/minerva/kb/driver.py), and of knowledge-base curation          *)
(* (src/src/minerva/learning/curator.py) over KnowledgeBase                *)
(* (src/src/minerva/kb/kb.py), and of topic detection                      *)
(* (src/src/minerva/core/topic.py, src/src/minerva/core/community.py).     *)
(* Spec is the learn pipeline, SpecCurator the curation, SpecDetect the    *)
(* topic detection, SpecSelect the threshold selectors of                  *)
(* src/src/minerva/clustering/threshold_selector.py and SpecKb the         *)
(* KnowledgeBase called directly; they share no state but the two stores   *)
(* of the knowledge base.                                                  *)
(*                                                                         *)
(* One learn or acurate invocation is a coroutine: it suspends at every    *)
(* await.  The tasks started by asyncio.gather interleave freely; each     *)
(* task is modelled with its own position.  The external capabilities     *)
(* (extraction, judgment, compression) answer nondeterministically and     *)
(* may fail.                                                               *)
(***************************************************************************)
EXTENDS Integers, Sequences, FiniteSets, TLC

\* ---------------------------------------------------------------- bounds
MaxDocs == 1
MaxEntities == 2
MaxFacts == 1
MaxBatches == 1
MaxItems == 1

\* ------------------------------------------------------- input alphabets
\* Entity names an extraction may return, with the embedding the extractor
\* gives each of them: "A1" and "A2" are near duplicates, "B" is unrelated.
Names == {"A1", "A2", "B"}

Embedding(text) ==
    CASE text = "A1" -> <<10, 0>>
      [] text = "A2" -> <<10, 1>>
      [] text = "B"  -> <<0, 10>>
      [] text = "f1" -> <<10, 0>>
      [] OTHER       -> <<10, 1>>

RelationType(text) == IF text = "f1" THEN "PARTNERS_WITH" ELSE "INVESTS_IN"

None == 0
NoSummary == ""

\* Search parameters of find_similar_entities: limit and threshold (percent).
SearchLimit == 10
ThresholdPct == 90

\* ------------------------------------------------------------ identities
\* uuid4 yields a fresh opaque id for every object built; the model gives
\* the objects of invocation d pairwise distinct numbers.
SourceId(d) == 100 * d + 1
EntityId(d, i) == 100 * d + 10 + i
MentionId(d, i) == 100 * d + 20 + i
RelationId(d, k) == 100 * d + 30 + k

\* An id that no stored object carries.
BogusId == SourceId(MaxDocs + 1)

\* ------------------------------------------------------ sequence helpers
Range(s) == {s[i] : i \in 1..Len(s)}

RECURSIVE SetToSortedSeq(_)
SetToSortedSeq(S) ==
    IF S = {} THEN <<>>
    ELSE LET m == CHOOSE x \in S : \A y \in S : x <= y
         IN <<m>> \o SetToSortedSeq(S \ {m})

\* sorted(set(xs)) of Python on a list of ids
SortedSet(xs) == SetToSortedSeq(Range(xs))

Take(s, n) == IF Len(s) <= n THEN s ELSE SubSeq(s, 1, n)

SeqsUpTo(S, n) == UNION {[1..m -> S] : m \in 0..n}

\* ------------------------------------------------- conversions to store
\* to_neo4j_params turns created_at into its ISO string; the create
\* statements wrap it in datetime(...), the update statement does not.
IsoFormat(t) == <<"string", t>>
CypherDatetime(iso) == <<"datetime", iso[2]>>

EntityParams(e) ==
    [id |-> e.id, created_at |-> IsoFormat(e.created_at), name |-> e.name,
     name_embedding |-> e.name_embedding, summary |-> e.summary]

SourceParams(s) ==
    [id |-> s.id, created_at |-> IsoFormat(s.created_at), content |-> s.content]

MentionsParams(m) ==
    [id |-> m.id, created_at |-> IsoFormat(m.created_at),
     from_id |-> m.from_id, to_id |-> m.to_id]

RelatesToParams(r) ==
    [id |-> r.id, created_at |-> IsoFormat(r.created_at),
     from_id |-> r.from_id, to_id |-> r.to_id,
     relation_type |-> r.relation_type, fact |-> r.fact,
     fact_embedding |-> r.fact_embedding, sources |-> r.sources,
     contradictory_relations |-> r.contradictory_relations]

\* ------------------------------------------------------ similarity search
Dot(a, b) == a[1] * b[1] + a[2] * b[2]

\* cosine(a, b) >= ThresholdPct / 100, in integer arithmetic
ScoreAtLeastThreshold(a, b) ==
    /\ Dot(a, b) > 0
    /\ 10000 * Dot(a, b) * Dot(a, b)
         >= ThresholdPct * ThresholdPct * Dot(a, a) * Dot(b, b)

\* EntityNode objects rebuilt from the stored nodes the vector index yields;
\* created_at is not passed on, so each object takes the current time.
FindSimilarEntities(g, name_embedding, now) ==
    LET hits == {n \in g.Entity :
                    ScoreAtLeastThreshold(n.name_embedding, name_embedding)}
        ids == SetToSortedSeq({n.id : n \in hits})
        node(x) == CHOOSE n \in hits : n.id = x
    IN Take([i \in 1..Len(ids) |->
               [id |-> ids[i], created_at |-> now, name |-> node(ids[i]).name,
                name_embedding |-> node(ids[i]).name_embedding,
                summary |-> node(ids[i]).summary]], SearchLimit)

\* RelatesToRelation objects for the stored relations whose fact embedding
\* is within the threshold of the given one.
FindSimilarRelations(g, fact_embedding) ==
    LET hits == {r \in g.RELATES_TO :
                    ScoreAtLeastThreshold(r.fact_embedding, fact_embedding)}
        ids == SetToSortedSeq({r.id : r \in hits})
        rel(x) == CHOOSE r \in hits : r.id = x
    IN Take([i \in 1..Len(ids) |->
               [id |-> ids[i], created_at |-> rel(ids[i]).created_at[2],
                from_id |-> rel(ids[i]).from_id, to_id |-> rel(ids[i]).to_id,
                relation_type |-> rel(ids[i]).relation_type,
                fact |-> rel(ids[i]).fact,
                fact_embedding |-> rel(ids[i]).fact_embedding,
                sources |-> rel(ids[i]).sources,
                contradictory_relations |->
                    rel(ids[i]).contradictory_relations]], SearchLimit)

\* ------------------------------------------------------------ graph store
EmptyGraph == [Source |-> {}, Entity |-> {}, MENTIONS |-> {}, RELATES_TO |-> {}]

\* bulk_create_nodes: CREATE (n:<type>) SET n = node,
\* n.created_at = datetime(node.created_at), one statement per type.
CreateNodes(g, source_nodes, entity_nodes) ==
    [g EXCEPT
       !.Source = @ \cup {[SourceParams(source_nodes[i]) EXCEPT
                             !.created_at = CypherDatetime(@)] :
                          i \in 1..Len(source_nodes)},
       !.Entity = @ \cup {[EntityParams(entity_nodes[i]) EXCEPT
                             !.created_at = CypherDatetime(@)] :
                          i \in 1..Len(entity_nodes)}]

\* bulk_create_relations: MATCH both endpoints by label and id, CREATE the
\* edge with its declared properties, stamp created_at with datetime(...).
CreateRelations(g, mentions, relates) ==
    LET has(label, x) == \E n \in label : n.id = x
        ms == {MentionsParams(mentions[i]) : i \in 1..Len(mentions)}
        rs == {RelatesToParams(relates[i]) : i \in 1..Len(relates)}
    IN [g EXCEPT
          !.MENTIONS = @ \cup
              {[m EXCEPT !.created_at = CypherDatetime(@)] :
                 m \in {x \in ms : has(g.Source, x.from_id)
                                     /\ has(g.Entity, x.to_id)}},
          !.RELATES_TO = @ \cup
              {[r EXCEPT !.created_at = CypherDatetime(@)] :
                 r \in {x \in rs : has(g.Entity, x.from_id)
                                     /\ has(g.Entity, x.to_id)}}]

\* bulk_update_relations: UNWIND the batch, MATCH the edge by id and SET
\* every declared property from the batch entry (created_at as passed).
RECURSIVE UpdateRelations(_, _)
UpdateRelations(g, relates) ==
    IF relates = <<>> THEN g
    ELSE LET rel == RelatesToParams(Head(relates))
             g1 == [g EXCEPT !.RELATES_TO =
                      {IF r.id = rel.id
                         THEN [r EXCEPT
                                 !.created_at = rel.created_at,
                                 !.relation_type = rel.relation_type,
                                 !.fact = rel.fact,
                                 !.fact_embedding = rel.fact_embedding,
                                 !.sources = rel.sources,
                                 !.contradictory_relations =
                                     rel.contradictory_relations]
                         ELSE r : r \in @}]
         IN UpdateRelations(g1, Tail(relates))

\* ------------------------------------------------------ write statements
\* BaseNode.type: the class name without "Node".
NodeType(n) == IF "content" \in DOMAIN n THEN "Source" ELSE "Entity"

\* type(relation): the class of a relation object.
RelationClass(r) ==
    IF "fact" \in DOMAIN r THEN "RelatesToRelation" ELSE "MentionsRelation"

\* BaseRelation.type: the class name in upper snake case without _RELATION.
RelationTypeOf(relation_class) ==
    IF relation_class = "RelatesToRelation" THEN "RELATES_TO" ELSE "MENTIONS"

\* The keys of a defaultdict filled object by object, in insertion order;
\* keys[i] is the key of the i-th object.
GroupKeys(keys) ==
    LET IsFirst(i) == \A j \in 1..(i - 1) : keys[j] # keys[i]
        firsts == SelectSeq([i \in 1..Len(keys) |-> i], IsFirst)
    IN [j \in 1..Len(firsts) |-> keys[firsts[j]]]

\* The ids of the objects filed under key k, in batch order.
GroupOf(objects, keys, k) ==
    LET members == SelectSeq([i \in 1..Len(keys) |-> i],
                             LAMBDA i : keys[i] = k)
    IN [j \in 1..Len(members) |-> objects[members[j]].id]

\* One session.run per key of the dictionary, with the group as payload;
\* nothing is run for an empty batch.
StatementPerGroup(kind, objects, keys, label, assigns) ==
    LET group_keys == GroupKeys(keys)
    IN [j \in 1..Len(group_keys) |->
          [kind |-> kind, label |-> label[group_keys[j]],
           payload |-> GroupOf(objects, keys, group_keys[j]),
           assigns |-> assigns[group_keys[j]]]]

\* SET n = node: every field of the node.
NodeAssigns(node_type) ==
    IF node_type = "Source" THEN {"id", "created_at", "content"}
    ELSE {"id", "created_at", "name", "name_embedding", "summary"}

\* The properties a relation statement assigns: the declared ones.
RelationAssigns(relation_class) ==
    IF relation_class = "RelatesToRelation"
    THEN {"id", "created_at", "relation_type", "fact", "fact_embedding",
          "sources", "contradictory_relations"}
    ELSE {"id", "created_at"}

NodeTypes == {"Source", "Entity"}

RelationClasses == {"MentionsRelation", "RelatesToRelation"}

\* A round trip for every node of the batch.
CreateNodeStatementsPerObject(nodes) ==
    [i \in 1..Len(nodes) |->
       [kind |-> "create_nodes", label |-> NodeType(nodes[i]),
        payload |-> <<nodes[i].id>>, assigns |-> NodeAssigns(NodeType(nodes[i]))]]

\* bulk_create_nodes: one statement per node.type of the batch.
CreateNodeStatements(nodes) ==
    StatementPerGroup("create_nodes", nodes,
                      [i \in 1..Len(nodes) |-> NodeType(nodes[i])],
                      [t \in NodeTypes |-> t],
                      [t \in NodeTypes |-> NodeAssigns(t)])

\* bulk_create_relations: one statement per class of the batch.
CreateRelationStatements(relations) ==
    StatementPerGroup("create_relations", relations,
                      [i \in 1..Len(relations) |-> RelationClass(relations[i])],
                      [c \in RelationClasses |-> RelationTypeOf(c)],
                      [c \in RelationClasses |-> RelationAssigns(c)])

\* bulk_update_relations: one MATCH ... SET statement per class.
UpdateRelationStatements(relations) ==
    StatementPerGroup("update_relations", relations,
                      [i \in 1..Len(relations) |-> RelationClass(relations[i])],
                      [c \in RelationClasses |-> RelationTypeOf(c)],
                      [c \in RelationClasses |-> RelationAssigns(c)])

\* ------------------------------------------------------------- variables
VARIABLES
    graph,                \* the property-graph store
    doc,                  \* number of learn invocations started
    pc,                   \* position of the current learn invocation
    failure,              \* what made the invocation raise, or "none"
    source_node,          \* SourceNode of the invocation
    extracted,            \* extraction_result.entities
    etask,                \* entity-resolution tasks of the invocation
    ecompleted,           \* their indices in completion order
    entities,             \* all_entities
    new_entities,
    mentions_relations,
    extracted_relations,
    rtask,                \* fact-resolution tasks of the invocation
    rcompleted,           \* their indices in completion order
    new_relations,
    relations_to_update,
    result,               \* the dictionary learn returns
    proposed_facts,       \* fact_extraction_result.facts
    routcome,             \* per extracted relation: action and resulting id
    mention,              \* how TrackedName has been mentioned and judged
    graph0,               \* the store when the invocation started
    statements,           \* the write statements the invocation has run
    mongo,                \* MongoKB: the sections
    chroma,               \* ChromaKB: the chunks of the sections' texts
    batch,                \* number of acurate invocations started
    cpc,                  \* position of the current acurate invocation
    items,                \* the items it was given
    ctask,                \* its _process_item tasks
    section_ids,          \* what it returns
    kg_entities,          \* the Entity ids of the graph topics are detected in
    kg_relations,         \* its RELATES_TO relations, in query order
    tpc,                  \* position of the current TopicManager.detect
    algorithm,            \* the detector the TopicManager was built with
    threshold_selector,   \* the keyword argument passed to detect, or None
    dendrogram,           \* what generate_dendrogram returned
    hlc,                  \* what HLC.single_linkage returned
    hierarchy,            \* the fields the detector builds its result from
    outcome,              \* how algorithm.detect ended
    topic_store,          \* topics, their edges and relation tags in the store
    summaries,            \* _generate_summaries: the level and its gathered tasks
    assign_call,          \* the last TopicManager.assign call and how it ended
    selector,             \* the threshold selector and its parameter
    list_D,               \* the (similarity, partition density) series given to select
    hlc_linkage,          \* the merges given to select
    edge_count,           \* the number of edge communities the linkage started from
    thresholds,           \* what select returned
    spc,                  \* position of the select call
    kb_call               \* the last direct KnowledgeBase call and how it ended

vars_learn ==
    <<graph, doc, pc, failure, source_node, extracted, etask, ecompleted,
      entities, new_entities, mentions_relations, extracted_relations,
      rtask, rcompleted, new_relations, relations_to_update, result,
      proposed_facts, routcome, mention, graph0, statements>>

vars_curator == <<mongo, chroma, batch, cpc, items, ctask, section_ids>>

vars_detect ==
    <<kg_entities, kg_relations, tpc, algorithm, threshold_selector,
      dendrogram, hlc, hierarchy, outcome, topic_store, summaries,
      assign_call>>

vars_select ==
    <<selector, list_D, hlc_linkage, edge_count, thresholds, spc>>

vars_kb == <<kb_call>>

vars == <<vars_learn, vars_curator, vars_detect, vars_select, vars_kb>>

NoResult == [source_id |-> None, entity_ids |-> <<>>, relation_ids |-> <<>>]
NoAnswer == [is_duplicate |-> FALSE, id |-> None]
NoEntity == [id |-> None, created_at |-> 0, name |-> "",
             name_embedding |-> <<0, 0>>, summary |-> NoSummary]
NoRelation == [id |-> None, created_at |-> 0, from_id |-> None,
               to_id |-> None, relation_type |-> "", fact |-> "",
               fact_embedding |-> <<0, 0>>, sources |-> <<>>,
               contradictory_relations |-> <<>>]

\* The store as an earlier learn invocation (number 0) leaves it: a source
\* mentioning "A1" and "B", and the fact "f1" from "A1" to "B".
SeedEntities ==
    <<[id |-> EntityId(0, 1), created_at |-> 0, name |-> "A1",
       name_embedding |-> Embedding("A1"), summary |-> NoSummary],
      [id |-> EntityId(0, 2), created_at |-> 0, name |-> "B",
       name_embedding |-> Embedding("B"), summary |-> NoSummary]>>

SeedSource == [id |-> SourceId(0), created_at |-> 0, content |-> 0]

SeedGraph ==
    CreateRelations(
        CreateNodes(EmptyGraph, <<SeedSource>>, SeedEntities),
        [i \in 1..2 |-> [id |-> MentionId(0, i), created_at |-> 0,
                         from_id |-> SeedSource.id,
                         to_id |-> SeedEntities[i].id]],
        <<[id |-> RelationId(0, 1), created_at |-> 0,
           from_id |-> SeedEntities[1].id, to_id |-> SeedEntities[2].id,
           relation_type |-> RelationType("f1"), fact |-> "f1",
           fact_embedding |-> Embedding("f1"), sources |-> <<SeedSource.id>>,
           contradictory_relations |-> <<>>]>>)

\* Minerva before its first learn invocation.
LearnIdle ==
    /\ doc = 0
    /\ pc = "idle"
    /\ failure = "none"
    /\ source_node = [id |-> None, created_at |-> 0, content |-> 0]
    /\ extracted = <<>>
    /\ etask = <<>>
    /\ ecompleted = <<>>
    /\ entities = <<>>
    /\ new_entities = <<>>
    /\ mentions_relations = <<>>
    /\ extracted_relations = <<>>
    /\ rtask = <<>>
    /\ rcompleted = <<>>
    /\ new_relations = <<>>
    /\ relations_to_update = <<>>
    /\ result = NoResult
    /\ proposed_facts = <<>>
    /\ routcome = <<>>
    /\ mention = "faithful"
    /\ statements = <<>>

\* Curator before its first acurate invocation.
CuratorIdle ==
    /\ batch = 0
    /\ cpc = "idle"
    /\ items = <<>>
    /\ ctask = <<>>
    /\ section_ids = <<>>

EmptyHierarchy ==
    [topics |-> <<>>, subtopic_relations |-> <<>>,
     belongs_to_relations |-> <<>>, updated_relations |-> <<>>,
     num_levels |-> 0]

\* No threshold selector has been called.
SelectIdle ==
    /\ selector = [kind |-> "none", parameter |-> None]
    /\ list_D = <<>>
    /\ hlc_linkage = <<>>
    /\ edge_count = 0
    /\ thresholds = <<>>
    /\ spc = "idle"

\* No KnowledgeBase method has been called directly.
KbIdle ==
    kb_call = [n |-> 0, op |-> "none", outcome |-> "none",
               before |-> [mongo |-> {}, chroma |-> {}]]

\* TopicManager before its first detect, over a graph without entities.
DetectIdle ==
    /\ kg_entities = <<>>
    /\ kg_relations = <<>>
    /\ tpc = "idle"
    /\ algorithm = "hlc"
    /\ threshold_selector = None
    /\ dendrogram = <<>>
    /\ hlc = [edge2cid |-> <<>>, linkage |-> <<>>]
    /\ hierarchy = EmptyHierarchy
    /\ outcome = "none"
    /\ topic_store = [Topic |-> {}, IS_SUBTOPIC |-> {}, BELONGS_TO |-> {},
                     topic_id |-> <<>>]
    /\ summaries = [level |-> -1, tasks |-> <<>>]
    /\ assign_call = [n |-> 0, entity |-> None, leaf_topics |-> <<>>,
                      outcome |-> "none", topic_id |-> None]

Init ==
    /\ graph \in {EmptyGraph, SeedGraph}
    /\ graph0 = graph
    /\ LearnIdle
    /\ mongo = {}
    /\ chroma = {}
    /\ CuratorIdle
    /\ DetectIdle
    /\ SelectIdle
    /\ KbIdle

\* ------------------------------------------------------ entity resolution
\* Answers resolve_entity may give: is_duplicate and existing_entity_id.
EntityAnswers(g) ==
    {NoAnswer} \cup
    [is_duplicate : {TRUE},
     id : {None, BogusId} \cup {n.id : n \in g.Entity}]

\* The EntityNode process_entity builds for a name it takes as new.  The call
\* passes name and name_embedding only; the node is taken to be built with
\* an empty summary, the value every later step of learn leaves in place.
NewEntityNode(d, i, entity_name) ==
    [id |-> EntityId(d, i), created_at |-> d, name |-> entity_name,
     name_embedding |-> Embedding(entity_name), summary |-> NoSummary]

EntityOutcomeTrusting(similar, resolution, new_node) ==
    IF resolution.is_duplicate /\ resolution.id # None
      THEN [action |-> 1, entity |-> [new_node EXCEPT !.id = resolution.id]]
      ELSE [action |-> 0, entity |-> new_node]

\* The tail of process_entity once the judgment has answered: the matching
\* candidate with action 1, else a new node with action 0.
EntityOutcome(similar, resolution, new_node) ==
    LET match == {j \in 1..Len(similar) : similar[j].id = resolution.id}
    IN IF resolution.is_duplicate /\ resolution.id # None /\ match # {}
         THEN [action |-> 1,
               entity |-> similar[CHOOSE j \in match : \A k \in match : j <= k]]
         ELSE [action |-> 0, entity |-> new_node]

\* Bookkeeping for the scenario of one entity mentioned by document after
\* document: whether an extraction listed its name twice while no entity of
\* that name was stored, and whether a judgment failed to affirm a stored
\* entity of that name that was offered.
TrackedName == "A1"

ListedTwice(names, n) ==
    Cardinality({i \in 1..Len(names) : names[i] = n}) >= 2

Affirms(similar, resolution, n) ==
    LET offered == {j \in 1..Len(similar) : similar[j].name = n}
    IN offered # {} =>
         /\ resolution.is_duplicate
         /\ \E j \in offered : similar[j].id = resolution.id

NewETask == [pc |-> "search", similar |-> <<>>, judged |-> FALSE,
             resolution |-> NoAnswer,
             result |-> [action |-> -1, entity |-> NoEntity]]

\* gather resumes its caller with the results once every task has returned.
AnyDone(tasks) == \E i \in 1..Len(tasks) : tasks[i].pc = "done"

AllDone(tasks) == \A i \in 1..Len(tasks) : tasks[i].pc = "done"

GatherAsCompleted(tasks, completed) ==
    [j \in 1..Len(tasks) |-> tasks[completed[j]].result]

\* asyncio.gather hands back the results in the order of its arguments,
\* whatever the order in which the tasks completed.
Gather(tasks, completed) == [i \in 1..Len(tasks) |-> tasks[i].result]

Selected(results, a) ==
    LET picked == SelectSeq(results, LAMBDA x : x.action = a)
    IN [i \in 1..Len(picked) |-> picked[i].entity]

CreateMentionRelations(src, ents, d) ==
    [i \in 1..Len(ents) |->
       [id |-> MentionId(d, i), created_at |-> d,
        from_id |-> src.id, to_id |-> ents[i].id]]

LearnLocals == <<source_node, extracted, etask, ecompleted, entities,
                 new_entities, mentions_relations, extracted_relations,
                 rtask, rcompleted, new_relations, relations_to_update,
                 proposed_facts, routcome, mention>>

LearnStartPersistingSource ==
    /\ pc \in {"idle", "done", "failed"}
    /\ doc < MaxDocs
    /\ doc' = doc + 1
    /\ pc' = "extract_entities"
    /\ failure' = "none"
    /\ source_node' = [id |-> SourceId(doc + 1), created_at |-> doc + 1,
                       content |-> doc + 1]
    /\ extracted' = <<>>
    /\ etask' = <<>>
    /\ ecompleted' = <<>>
    /\ entities' = <<>>
    /\ new_entities' = <<>>
    /\ mentions_relations' = <<>>
    /\ extracted_relations' = <<>>
    /\ rtask' = <<>>
    /\ rcompleted' = <<>>
    /\ new_relations' = <<>>
    /\ relations_to_update' = <<>>
    /\ result' = NoResult
    /\ proposed_facts' = <<>>
    /\ routcome' = <<>>
    /\ graph0' = graph
    /\ graph' = CreateNodes(graph, <<source_node'>>, <<>>)
    /\ UNCHANGED mention
    /\ UNCHANGED <<vars_curator, vars_detect, vars_select, vars_kb>>
    /\ statements' = <<>>

\* learn is entered: the SourceNode is built, nothing is written yet.
LearnStart ==
    /\ pc \in {"idle", "done", "failed"}
    /\ doc < MaxDocs
    /\ doc' = doc + 1
    /\ pc' = "extract_entities"
    /\ failure' = "none"
    /\ source_node' = [id |-> SourceId(doc + 1), created_at |-> doc + 1,
                       content |-> doc + 1]
    /\ extracted' = <<>>
    /\ etask' = <<>>
    /\ ecompleted' = <<>>
    /\ entities' = <<>>
    /\ new_entities' = <<>>
    /\ mentions_relations' = <<>>
    /\ extracted_relations' = <<>>
    /\ rtask' = <<>>
    /\ rcompleted' = <<>>
    /\ new_relations' = <<>>
    /\ relations_to_update' = <<>>
    /\ result' = NoResult
    /\ proposed_facts' = <<>>
    /\ routcome' = <<>>
    /\ graph0' = graph
    /\ UNCHANGED <<graph, mention>>
    /\ UNCHANGED <<vars_curator, vars_detect, vars_select, vars_kb>>
    /\ statements' = <<>>

\* await extract_entities(source) returns a list of names.
ExtractEntities ==
    /\ pc = "extract_entities"
    /\ \E names \in SeqsUpTo(Names, MaxEntities) :
         /\ extracted' = names
         /\ mention' = IF /\ mention = "faithful"
                           /\ ListedTwice(names, TrackedName)
                           /\ ~\E n \in graph.Entity : n.name = TrackedName
                        THEN "repeated" ELSE mention
         /\ etask' = [i \in 1..Len(names) |-> NewETask]
         /\ pc' = IF names = <<>> THEN "create_nodes" ELSE "resolve_entities"
    /\ UNCHANGED <<graph, doc, failure, source_node, ecompleted, entities,
                   new_entities, mentions_relations, extracted_relations,
                   rtask, rcompleted, new_relations, relations_to_update,
                   result, graph0>>
    /\ UNCHANGED <<proposed_facts, routcome>>
    /\ UNCHANGED <<vars_curator, vars_detect, vars_select, vars_kb>>
    /\ UNCHANGED statements

\* extract_entities raises: the exception leaves learn.
ExtractEntitiesFail ==
    /\ pc = "extract_entities"
    /\ pc' = "failed"
    /\ failure' = "extract_entities"
    /\ UNCHANGED <<graph, doc, result, graph0>>
    /\ UNCHANGED LearnLocals
    /\ UNCHANGED <<vars_curator, vars_detect, vars_select, vars_kb>>
    /\ UNCHANGED statements

\* The tasks of gather run while _resolve_entities awaits them; what they
\* do after gather has re-raised reaches neither learn nor the store.
EntityTasksRunning == pc = "resolve_entities"

\* process_entity up to the return of find_similar_entities; with no
\* candidate the task ends at once with a new node.
ProcessEntitySearch(i) ==
    /\ EntityTasksRunning
    /\ etask[i].pc = "search"
    /\ LET similar == FindSimilarEntities(graph, Embedding(extracted[i]), doc)
       IN IF similar = <<>>
            THEN /\ etask' = [etask EXCEPT
                      ![i].pc = "done",
                      ![i].result =
                          [action |-> 0,
                           entity |-> NewEntityNode(doc, i, extracted[i])]]
                 /\ ecompleted' = Append(ecompleted, i)
            ELSE /\ etask' = [etask EXCEPT ![i].pc = "judge",
                                           ![i].similar = similar]
                 /\ UNCHANGED ecompleted
    /\ UNCHANGED <<graph, doc, pc, failure, source_node, extracted, entities,
                   new_entities, mentions_relations, extracted_relations,
                   rtask, rcompleted, new_relations, relations_to_update,
                   result, graph0>>
    /\ UNCHANGED <<proposed_facts, routcome, mention>>
    /\ UNCHANGED <<vars_curator, vars_detect, vars_select, vars_kb>>
    /\ UNCHANGED statements

\* process_entity from the return of resolve_entity to its own return.
ProcessEntityResolve(i) ==
    /\ EntityTasksRunning
    /\ etask[i].pc = "judge"
    /\ \E resolution \in EntityAnswers(graph) :
         /\ etask' = [etask EXCEPT
               ![i].pc = "done",
               ![i].judged = TRUE,
               ![i].resolution = resolution,
               ![i].result = EntityOutcome(etask[i].similar, resolution,
                                 NewEntityNode(doc, i, extracted[i]))]
         /\ mention' = IF extracted[i] = TrackedName
                           /\ ~Affirms(etask[i].similar, resolution, TrackedName)
                        THEN "unfaithful" ELSE mention
    /\ ecompleted' = Append(ecompleted, i)
    /\ UNCHANGED <<graph, doc, pc, failure, source_node, extracted, entities,
                   new_entities, mentions_relations, extracted_relations,
                   rtask, rcompleted, new_relations, relations_to_update,
                   result, graph0>>
    /\ UNCHANGED <<proposed_facts, routcome>>
    /\ UNCHANGED <<vars_curator, vars_detect, vars_select, vars_kb>>
    /\ UNCHANGED statements

\* find_similar_entities or resolve_entity raises inside task i.
ProcessEntityFail(i) ==
    /\ EntityTasksRunning
    /\ etask[i].pc \in {"search", "judge"}
    /\ etask' = [etask EXCEPT ![i].pc = "raised"]
    /\ UNCHANGED <<graph, doc, pc, failure, source_node, extracted, ecompleted,
                   entities, new_entities, mentions_relations,
                   extracted_relations, rtask, rcompleted, new_relations,
                   relations_to_update, result, graph0>>
    /\ UNCHANGED <<proposed_facts, routcome, mention>>
    /\ UNCHANGED <<vars_curator, vars_detect, vars_select, vars_kb>>
    /\ UNCHANGED statements

\* Every task has returned: _resolve_entities returns, learn builds the
\* MENTIONS relations and goes on to fact extraction or to persistence.
GatherEntities ==
    /\ pc = "resolve_entities"
    /\ AllDone(etask)
    /\ LET results == Gather(etask, ecompleted)
           all_entities == [i \in 1..Len(results) |-> results[i].entity]
       IN /\ new_entities' = Selected(results, 0)
          /\ entities' = all_entities
          /\ mentions_relations' =
                 CreateMentionRelations(source_node, all_entities, doc)
          /\ pc' = IF Len(all_entities) >= 2 THEN "extract_facts"
                   ELSE "create_nodes"
    /\ etask' = <<>>
    /\ UNCHANGED <<graph, doc, failure, source_node, extracted, ecompleted,
                   extracted_relations, rtask, rcompleted, new_relations,
                   relations_to_update, result, graph0>>
    /\ UNCHANGED <<proposed_facts, routcome, mention>>
    /\ UNCHANGED <<vars_curator, vars_detect, vars_select, vars_kb>>
    /\ UNCHANGED statements

\* gather re-raises the exception of a task as soon as it has one; no
\* handler stands between the task and the caller of learn.
GatherEntitiesRaise ==
    /\ pc = "resolve_entities"
    /\ \E i \in 1..Len(etask) : etask[i].pc = "raised"
    /\ pc' = "failed"
    /\ failure' = "resolve_entities"
    /\ UNCHANGED <<graph, doc, result, graph0>>
    /\ UNCHANGED LearnLocals
    /\ UNCHANGED <<vars_curator, vars_detect, vars_select, vars_kb>>
    /\ UNCHANGED statements

\* -------------------------------------------------------- fact extraction
\* Facts extract_facts may return.
Facts ==
    [from_entity : Names, to_entity : Names, fact : {"f1", "f2"}]

\* entity_map = {e.name: e.id for e in entities}; .get gives None when the
\* name is absent, and the last entity of a name wins.
EntityMapGet(ents, name) ==
    LET idx == {i \in 1..Len(ents) : ents[i].name = name}
    IN IF idx = {} THEN None
       ELSE ents[CHOOSE i \in idx : \A j \in idx : j <= i].id

ValidFactNoSelfCheck(ents, fact) ==
    LET from_id == EntityMapGet(ents, fact.from_entity)
        to_id == EntityMapGet(ents, fact.to_entity)
    IN from_id # None /\ to_id # None

\* if from_id and to_id and from_id != to_id
ValidFact(ents, fact) ==
    LET from_id == EntityMapGet(ents, fact.from_entity)
        to_id == EntityMapGet(ents, fact.to_entity)
    IN from_id # None /\ to_id # None /\ from_id # to_id

\* The RelatesToRelation objects _extract_facts builds from the valid facts.
ExtractedRelations(src, ents, facts, d) ==
    LET valid_facts == SelectSeq(facts, LAMBDA f : ValidFact(ents, f))
    IN [k \in 1..Len(valid_facts) |->
          [id |-> RelationId(d, k), created_at |-> d,
           from_id |-> EntityMapGet(ents, valid_facts[k].from_entity),
           to_id |-> EntityMapGet(ents, valid_facts[k].to_entity),
           relation_type |-> RelationType(valid_facts[k].fact),
           fact |-> valid_facts[k].fact,
           fact_embedding |-> Embedding(valid_facts[k].fact),
           sources |-> <<src.id>>,
           contradictory_relations |-> <<>>]]

NewRTask == [pc |-> "search", similar |-> <<>>, judged |-> FALSE,
             resolution |-> NoAnswer,
             result |-> [action |-> -1, entity |-> NoRelation]]

\* await extract_facts(...) returns; the relations are built, and learn
\* goes on to their resolution when there is any.
ExtractFacts ==
    /\ pc = "extract_facts"
    /\ \E facts \in SeqsUpTo(Facts, MaxFacts) :
         LET relations == ExtractedRelations(source_node, entities, facts, doc)
         IN /\ proposed_facts' = facts
            /\ extracted_relations' = relations
            /\ rtask' = [k \in 1..Len(relations) |-> NewRTask]
            /\ pc' = IF relations = <<>> THEN "create_nodes"
                     ELSE "resolve_relations"
    /\ UNCHANGED <<graph, doc, failure, source_node, extracted, etask,
                   ecompleted, entities, new_entities, mentions_relations,
                   rcompleted, new_relations, relations_to_update, result,
                   graph0>>
    /\ UNCHANGED <<routcome, mention>>
    /\ UNCHANGED <<vars_curator, vars_detect, vars_select, vars_kb>>
    /\ UNCHANGED statements

\* extract_facts raises: the exception leaves learn.
ExtractFactsFail ==
    /\ pc = "extract_facts"
    /\ pc' = "failed"
    /\ failure' = "extract_facts"
    /\ UNCHANGED <<graph, doc, result, graph0>>
    /\ UNCHANGED LearnLocals
    /\ UNCHANGED <<vars_curator, vars_detect, vars_select, vars_kb>>
    /\ UNCHANGED statements

\* -------------------------------------------------------- fact resolution
\* Answers resolve_fact may give: is_duplicate and existing_relation_id.
\* Its prompt asks for is_duplicate when the new relation holds strictly
\* subset or duplicate information of an existing one.
FactAnswers(g) ==
    {NoAnswer} \cup
    [is_duplicate : {TRUE},
     id : {None, BogusId} \cup {r.id : r \in g.RELATES_TO}]

RelationOutcomeOverwrite(similar, resolution, relation) ==
    LET match == {j \in 1..Len(similar) : similar[j].id = resolution.id}
    IN IF resolution.is_duplicate /\ resolution.id # None /\ match # {}
         THEN LET candidate ==
                      similar[CHOOSE j \in match : \A k \in match : j <= k]
              IN [action |-> 1,
                  entity |-> [candidate EXCEPT !.sources = relation.sources]]
         ELSE [action |-> 0, entity |-> relation]

\* The tail of process_relation once the judgment has answered: a copy of
\* the matching candidate with the sources merged and action 1, else the
\* new relation with action 0.
RelationOutcome(similar, resolution, relation) ==
    LET match == {j \in 1..Len(similar) : similar[j].id = resolution.id}
    IN IF resolution.is_duplicate /\ resolution.id # None /\ match # {}
         THEN LET candidate ==
                      similar[CHOOSE j \in match : \A k \in match : j <= k]
              IN [action |-> 1,
                  entity |-> [candidate EXCEPT !.sources =
                                SortedSet(candidate.sources \o relation.sources)]]
         ELSE [action |-> 0, entity |-> relation]

RelationTasksRunning == pc = "resolve_relations"

\* process_relation up to the return of find_similar_relations.
ProcessRelationSearch(k) ==
    /\ RelationTasksRunning
    /\ rtask[k].pc = "search"
    /\ LET similar ==
               FindSimilarRelations(graph, extracted_relations[k].fact_embedding)
       IN IF similar = <<>>
            THEN /\ rtask' = [rtask EXCEPT
                      ![k].pc = "done",
                      ![k].result = [action |-> 0,
                                     entity |-> extracted_relations[k]]]
                 /\ rcompleted' = Append(rcompleted, k)
            ELSE /\ rtask' = [rtask EXCEPT ![k].pc = "judge",
                                           ![k].similar = similar]
                 /\ UNCHANGED rcompleted
    /\ UNCHANGED <<graph, doc, pc, failure, source_node, extracted, etask,
                   ecompleted, entities, new_entities, mentions_relations,
                   extracted_relations, new_relations, relations_to_update,
                   result, graph0>>
    /\ UNCHANGED <<proposed_facts, routcome, mention>>
    /\ UNCHANGED <<vars_curator, vars_detect, vars_select, vars_kb>>
    /\ UNCHANGED statements

\* process_relation from the return of resolve_fact to its own return.
ProcessRelationResolve(k) ==
    /\ RelationTasksRunning
    /\ rtask[k].pc = "judge"
    /\ \E resolution \in FactAnswers(graph) :
         rtask' = [rtask EXCEPT
            ![k].pc = "done",
            ![k].judged = TRUE,
            ![k].resolution = resolution,
            ![k].result = RelationOutcome(rtask[k].similar, resolution,
                              extracted_relations[k])]
    /\ rcompleted' = Append(rcompleted, k)
    /\ UNCHANGED <<graph, doc, pc, failure, source_node, extracted, etask,
                   ecompleted, entities, new_entities, mentions_relations,
                   extracted_relations, new_relations, relations_to_update,
                   result, graph0>>
    /\ UNCHANGED <<proposed_facts, routcome, mention>>
    /\ UNCHANGED <<vars_curator, vars_detect, vars_select, vars_kb>>
    /\ UNCHANGED statements

\* find_similar_relations or resolve_fact raises inside task k.
ProcessRelationFail(k) ==
    /\ RelationTasksRunning
    /\ rtask[k].pc \in {"search", "judge"}
    /\ rtask' = [rtask EXCEPT ![k].pc = "raised"]
    /\ UNCHANGED <<graph, doc, pc, failure, source_node, extracted, etask,
                   ecompleted, entities, new_entities, mentions_relations,
                   extracted_relations, rcompleted, new_relations,
                   relations_to_update, result, graph0>>
    /\ UNCHANGED <<proposed_facts, routcome, mention>>
    /\ UNCHANGED <<vars_curator, vars_detect, vars_select, vars_kb>>
    /\ UNCHANGED statements

\* Every task has returned: _resolve_relations returns its two lists.
GatherRelations ==
    /\ pc = "resolve_relations"
    /\ AllDone(rtask)
    /\ LET results == Gather(rtask, rcompleted)
       IN /\ new_relations' = Selected(results, 0)
          /\ relations_to_update' = Selected(results, 1)
    /\ pc' = "create_nodes"
    /\ rtask' = <<>>
    /\ UNCHANGED <<graph, doc, failure, source_node, extracted, etask,
                   ecompleted, entities, new_entities, mentions_relations,
                   extracted_relations, rcompleted, result, graph0>>
    /\ routcome' = [k \in 1..Len(rtask) |->
                       [action |-> rtask[k].result.action,
                        id |-> rtask[k].result.entity.id]]
    /\ UNCHANGED <<proposed_facts, mention>>
    /\ UNCHANGED <<vars_curator, vars_detect, vars_select, vars_kb>>
    /\ UNCHANGED statements

GatherRelationsRaise ==
    /\ pc = "resolve_relations"
    /\ \E k \in 1..Len(rtask) : rtask[k].pc = "raised"
    /\ pc' = "failed"
    /\ failure' = "resolve_relations"
    /\ UNCHANGED <<graph, doc, result, graph0>>
    /\ UNCHANGED LearnLocals
    /\ UNCHANGED <<vars_curator, vars_detect, vars_select, vars_kb>>
    /\ UNCHANGED statements

\* ------------------------------------------------------------ persistence
\* await self.driver.bulk_create_nodes([source_node] + new_entities)
BulkCreateNodes ==
    /\ pc = "create_nodes"
    /\ graph' = CreateNodes(graph, <<source_node>>, new_entities)
    /\ pc' = "create_relations"
    /\ UNCHANGED <<doc, failure, result, graph0>>
    /\ UNCHANGED LearnLocals
    /\ UNCHANGED <<vars_curator, vars_detect, vars_select, vars_kb>>
    /\ statements' = statements
           \o CreateNodeStatements(<<source_node>> \o new_entities)

\* await self.driver.bulk_create_relations(mentions_relations + new_relations)
BulkCreateRelations ==
    /\ pc = "create_relations"
    /\ graph' = CreateRelations(graph, mentions_relations, new_relations)
    /\ pc' = "update_relations"
    /\ UNCHANGED <<doc, failure, result, graph0>>
    /\ UNCHANGED LearnLocals
    /\ UNCHANGED <<vars_curator, vars_detect, vars_select, vars_kb>>
    /\ statements' = statements
           \o CreateRelationStatements(mentions_relations \o new_relations)

Ids(s) == [i \in 1..Len(s) |-> s[i].id]

\* await self.driver.bulk_update_relations(relations_to_update), then the
\* return of learn.
BulkUpdateRelations ==
    /\ pc = "update_relations"
    /\ graph' = UpdateRelations(graph, relations_to_update)
    /\ result' = [source_id |-> source_node.id,
                  entity_ids |-> Ids(entities),
                  relation_ids |-> Ids(mentions_relations \o new_relations
                                        \o relations_to_update)]
    /\ pc' = "done"
    /\ UNCHANGED <<doc, failure, graph0>>
    /\ UNCHANGED LearnLocals
    /\ UNCHANGED <<vars_curator, vars_detect, vars_select, vars_kb>>
    /\ statements' = statements \o UpdateRelationStatements(relations_to_update)

\* A write to the store raises: the exception leaves learn.
PersistenceFail ==
    /\ pc \in {"create_nodes", "create_relations", "update_relations"}
    /\ pc' = "failed"
    /\ failure' = "persistence"
    /\ UNCHANGED <<graph, doc, result, graph0>>
    /\ UNCHANGED LearnLocals
    /\ UNCHANGED <<vars_curator, vars_detect, vars_select, vars_kb>>
    /\ UNCHANGED statements

\* ---------------------------------------------------------- specification
Next ==
    \/ LearnStart
    \/ ExtractEntities
    \/ ExtractEntitiesFail
    \/ \E i \in 1..Len(etask) : ProcessEntitySearch(i)
    \/ \E i \in 1..Len(etask) : ProcessEntityResolve(i)
    \/ \E i \in 1..Len(etask) : ProcessEntityFail(i)
    \/ GatherEntities
    \/ GatherEntitiesRaise
    \/ ExtractFacts
    \/ ExtractFactsFail
    \/ \E k \in 1..Len(rtask) : ProcessRelationSearch(k)
    \/ \E k \in 1..Len(rtask) : ProcessRelationResolve(k)
    \/ \E k \in 1..Len(rtask) : ProcessRelationFail(k)
    \/ GatherRelations
    \/ GatherRelationsRaise
    \/ BulkCreateNodes
    \/ BulkCreateRelations
    \/ BulkUpdateRelations
    \/ PersistenceFail

Spec == Init /\ [][Next]_vars

\* ================================================ knowledge-base curation
\* Curator.acurate (src/src/minerva/learning/curator.py) over KnowledgeBase
\* (src/src/minerva/kb/kb.py), which keeps every section in MongoKB and its
\* text in ChromaKB.  acurate is called with parent_section_id = None, so
\* every section is a root and has no children.

\* Texts of knowledge items: "ab" says everything "a" says and more, "c" is
\* unrelated, "m" is a text only the compression prompt produces.
Texts == {"a", "ab", "c"}

HeaderOf(content) ==
    CASE content = "a"  -> "ha"
      [] content = "ab" -> "hab"
      [] content = "c"  -> "hc"
      [] content = "long" -> "hl"
      [] OTHER          -> "hm"

KnowledgeItem(content) == [header |-> HeaderOf(content), content |-> content]

\* 1 - distance of the vector index between two texts, in percent.
SimilarityPct(query, content) ==
    CASE query = content                  -> 100
      [] {query, content} = {"a", "ab"}   -> 80
      [] {query, content} = {"ab", "m"}   -> 90
      [] {query, content} = {"a", "m"}    -> 70
      [] {query, content} = {"c", "l0"}   -> 60
      [] {query, content} = {"c", "l1"}   -> 55
      [] OTHER                            -> 10

CuratorThresholdPct == 50
NResults == 10

\* generate_id: a fresh uuid for the section item i of batch b adds.
SectionId(b, i) == 100 * b + 50 + i

EmptyKb == [mongo |-> {}, chroma |-> {}]

\* What MongoKB.get answers for an id it does not hold (None in the code).
NoSection == [section_id |-> None, parent_id |-> None, header |-> "",
              content |-> "", level |-> 0, order |-> 0]

\* MongoKB.get: the section with that section_id, or None.
MongoGet(sections, section_id) ==
    IF \E s \in sections : s.section_id = section_id
    THEN CHOOSE s \in sections : s.section_id = section_id
    ELSE NoSection

MongoGetChildren(sections, parent_id) ==
    {s \in sections : s.parent_id = parent_id}

\* MongoKB.add of a section whose parent, if it names one, is stored.
MongoAdd(sections, section_id, header, content, parent_id) ==
    sections \cup
    {[section_id |-> section_id, parent_id |-> parent_id,
      header |-> header, content |-> content,
      level |-> IF parent_id # None
                THEN MongoGet(sections, parent_id).level + 1 ELSE 0,
      order |-> Cardinality(MongoGetChildren(sections, parent_id))]}

MongoUpdate(sections, section_id, header, content) ==
    {IF s.section_id = section_id
     THEN [s EXCEPT !.header = header, !.content = content]
     ELSE s : s \in sections}

\* The section and everything below it, as the loops over get_children
\* collect them.
RECURSIVE Descendants(_, _)
Descendants(sections, section_id) ==
    {section_id} \cup
    UNION {Descendants(sections, c.section_id)
           : c \in MongoGetChildren(sections, section_id)}

\* MongoKB.delete; a non-recursive delete of a section that has children
\* raises ValueError and deletes nothing.
MongoDelete(sections, section_id, recursive) ==
    IF recursive
    THEN {s \in sections :
             s.section_id \notin Descendants(sections, section_id)}
    ELSE IF MongoGetChildren(sections, section_id) # {}
         THEN sections
         ELSE {s \in sections : s.section_id # section_id}

\* chunk_text with chunk_size 500: a text of at most 500 characters is its
\* only chunk.  "long" stands for a text of more than 500 characters, which
\* is cut into the overlapping chunks "l0" and "l1".
ChunkText(text) ==
    IF text = "long" THEN <<"l0", "l1">> ELSE <<text>>

\* The id of a chunk is the section id, followed by the chunk index when
\* the section has several chunks.
ChromaAdd(collection, section_id, content, metadata) ==
    LET chunks == ChunkText(content)
    IN collection \cup
       {[id |-> IF Len(chunks) > 1 THEN <<section_id, i - 1>>
                ELSE <<section_id>>,
         document |-> chunks[i], chunk_index |-> i - 1,
         section_id |-> section_id, header |-> metadata.header,
         level |-> metadata.level, parent_id |-> metadata.parent_id]
        : i \in 1..Len(chunks)}

ChromaDelete(collection, section_id) ==
    {d \in collection : d.section_id # section_id}

ChromaUpdate(collection, section_id, content, metadata) ==
    ChromaAdd(ChromaDelete(collection, section_id), section_id, content,
              metadata)

SectionIdsOf(sections) == {s.section_id : s \in sections}

\* KnowledgeBase.get by section id; a uuid is no slug and no numeric path.
KbGet(kb, identifier) == MongoGet(kb.mongo, identifier)

\* parent_id or "" of the chunk metadata: the empty string is <<>>, an id p
\* is <<p>>.
ParentIdOrEmpty(parent_id) ==
    IF parent_id = None THEN <<>> ELSE <<parent_id>>

KbAdd(kb, section_id, header, content, parent_section) ==
    LET mongo1 == MongoAdd(kb.mongo, section_id, header, content,
                           parent_section)
        section == MongoGet(mongo1, section_id)
    IN [mongo |-> mongo1,
        chroma |-> ChromaAdd(kb.chroma, section_id, content,
                     [section_id |-> section_id, header |-> header,
                      level |-> section.level,
                      parent_id |-> ParentIdOrEmpty(parent_section)])]

KbUpdate(kb, identifier, header, content) ==
    LET section == KbGet(kb, identifier)
    IN IF section = NoSection THEN kb
       ELSE LET mongo1 == MongoUpdate(kb.mongo, section.section_id,
                                      header, content)
                updated == MongoGet(mongo1, section.section_id)
            IN [mongo |-> mongo1,
                chroma |-> ChromaUpdate(kb.chroma, section.section_id,
                             content,
                             [section_id |-> section.section_id,
                              header |-> updated.header,
                              level |-> updated.level,
                              parent_id |->
                                ParentIdOrEmpty(updated.parent_id)])]

\* KnowledgeBase.delete: the chunks are deleted first, of the section or,
\* when recursive, of the section and everything below it; then
\* MongoKB.delete runs, and its ValueError leaves the call.
KbDelete(kb, identifier, recursive) ==
    LET section == KbGet(kb, identifier)
        sections_to_delete == Descendants(kb.mongo, section.section_id)
    IN IF section = NoSection THEN kb
       ELSE [mongo |-> MongoDelete(kb.mongo, section.section_id, recursive),
             chroma |-> IF recursive
                        THEN {d \in kb.chroma :
                                 d.section_id \notin sections_to_delete}
                        ELSE ChromaDelete(kb.chroma, section.section_id)]

QueryResult(d, query) ==
    [section_id |-> d.section_id, header |-> d.header,
     content |-> d.document, similarity |-> SimilarityPct(query, d.document)]

\* The chunks nearest first; chunks at the same distance come in either
\* order.
RECURSIVE NearestFirst(_, _)
NearestFirst(chunks, query) ==
    IF chunks = {} THEN {<<>>}
    ELSE LET nearest == {d \in chunks : \A e \in chunks :
                            SimilarityPct(query, d.document)
                              >= SimilarityPct(query, e.document)}
         IN UNION {{<<d>> \o rest : rest \in NearestFirst(chunks \ {d}, query)}
                   : d \in nearest}

\* ChromaKB.search: the n_results nearest chunks.
ChromaSearch(collection, query, n_results) ==
    {Take(s, n_results) : s \in NearestFirst(collection, query)}

\* KnowledgeBase.search: the hits whose section MongoKB still holds.
KbSearch(kb, query, n_results) ==
    {LET Held(d) == MongoGet(kb.mongo, d.section_id) # NoSection
     IN [i \in 1..Len(SelectSeq(s, Held)) |->
           QueryResult(SelectSeq(s, Held)[i], query)]
     : s \in ChromaSearch(kb.chroma, query, n_results)}

\* ------------------------------------------------------- Curator.acurate
Kb == [mongo |-> mongo, chroma |-> chroma]

NewCTask(item) ==
    [pc |-> "start", item |-> item, candidates |-> <<>>,
     similar_candidates |-> <<>>, subset_results |-> <<>>,
     compressed_item |-> [header |-> "", content |-> ""], result |-> None]

\* The results at or above similarity_threshold, in search order.
Candidates(similar_results, similarity_threshold) ==
    LET Near(r) == r.similarity >= similarity_threshold
    IN SelectSeq(similar_results, Near)

\* [c for c, r in zip(candidates, results) if r.decision]
SimilarCandidates(candidates, similarity_results) ==
    LET idx == SetToSortedSeq({i \in 1..Len(candidates) :
                                  similarity_results[i]})
    IN [k \in 1..Len(idx) |-> candidates[idx[k]]]

SubsetOfAll(subset_results) ==
    \A i \in 1..Len(subset_results) : subset_results[i]

\* The item is discarded when it is a subset of any similar candidate.
SubsetOfAny(subset_results) ==
    \E i \in 1..Len(subset_results) : subset_results[i]

\* What the compression prompt may answer: the new item as it is, or a
\* KnowledgeItem with a text of its own.
CompressOutputs(new_item) == {new_item, KnowledgeItem("m")}

RECURSIVE DeleteAll(_, _)
DeleteAll(kb, cands) ==
    IF cands = <<>> THEN kb
    ELSE DeleteAll(KbDelete(kb, Head(cands).section_id, FALSE),
                   Tail(cands))

\* kb.update of the first similar candidate, kb.delete of the others.
StoreCompressed(kb, similar_candidates, compressed_item) ==
    DeleteAll(KbUpdate(kb, similar_candidates[1].section_id,
                       compressed_item.header, compressed_item.content),
              Tail(similar_candidates))

AcurateStart ==
    /\ cpc \in {"idle", "done", "failed"}
    /\ batch < MaxBatches
    /\ batch' = batch + 1
    /\ \E its \in SeqsUpTo({KnowledgeItem(t) : t \in Texts}, MaxItems) :
          /\ items' = its
          /\ ctask' = [i \in 1..Len(its) |-> NewCTask(its[i])]
    /\ cpc' = "curating"
    /\ section_ids' = <<>>
    /\ UNCHANGED <<mongo, chroma>>
    /\ UNCHANGED <<vars_learn, vars_detect, vars_select, vars_kb>>

CuratorTasksRunning == cpc \in {"curating", "failed"}

AddsItem(i, kb1) ==
    /\ mongo' = kb1.mongo
    /\ chroma' = kb1.chroma
    /\ ctask' = [ctask EXCEPT ![i].pc = "done",
                              ![i].result = SectionId(batch, i)]

\* _process_item up to its first await: the search and, when nothing is
\* near enough, the add.  The tasks of a batch start in list order.
ProcessItemSearch(i) ==
    /\ CuratorTasksRunning
    /\ ctask[i].pc = "start"
    /\ \A j \in 1..(i - 1) : ctask[j].pc # "start"
    /\ \E similar_results \in KbSearch(Kb, ctask[i].item.content, NResults) :
          LET candidates == Candidates(similar_results, CuratorThresholdPct)
          IN IF candidates = <<>>
             THEN AddsItem(i, KbAdd(Kb, SectionId(batch, i),
                                    ctask[i].item.header,
                                    ctask[i].item.content, None))
             ELSE /\ ctask' = [ctask EXCEPT ![i].pc = "similarity",
                                            ![i].candidates = candidates]
                  /\ UNCHANGED <<mongo, chroma>>
    /\ UNCHANGED <<batch, cpc, items, section_ids>>
    /\ UNCHANGED <<vars_learn, vars_detect, vars_select, vars_kb>>

\* The similarity judgments arrive; with none positive the item is added.
ProcessItemSimilarity(i) ==
    /\ CuratorTasksRunning
    /\ ctask[i].pc = "similarity"
    /\ \E similarity_results \in [1..Len(ctask[i].candidates) -> BOOLEAN] :
          LET similar_candidates ==
                  SimilarCandidates(ctask[i].candidates, similarity_results)
          IN IF similar_candidates = <<>>
             THEN AddsItem(i, KbAdd(Kb, SectionId(batch, i),
                                    ctask[i].item.header,
                                    ctask[i].item.content, None))
             ELSE /\ ctask' = [ctask EXCEPT
                                 ![i].pc = "subset",
                                 ![i].similar_candidates = similar_candidates]
                  /\ UNCHANGED <<mongo, chroma>>
    /\ UNCHANGED <<batch, cpc, items, section_ids>>
    /\ UNCHANGED <<vars_learn, vars_detect, vars_select, vars_kb>>

\* The subset judgments arrive; one positive answer discards the item.
ProcessItemSubset(i) ==
    /\ CuratorTasksRunning
    /\ ctask[i].pc = "subset"
    /\ \E subset_results \in
            [1..Len(ctask[i].similar_candidates) -> BOOLEAN] :
          ctask' = [ctask EXCEPT
                      ![i].subset_results = subset_results,
                      ![i].pc = IF SubsetOfAny(subset_results)
                                THEN "done" ELSE "compress"]
    /\ UNCHANGED <<mongo, chroma, batch, cpc, items, section_ids>>
    /\ UNCHANGED <<vars_learn, vars_detect, vars_select, vars_kb>>

\* The compressed item arrives and replaces the most similar section.
ProcessItemCompress(i) ==
    /\ CuratorTasksRunning
    /\ ctask[i].pc = "compress"
    /\ \E compressed_item \in CompressOutputs(ctask[i].item) :
          LET kb1 == StoreCompressed(Kb, ctask[i].similar_candidates,
                                     compressed_item)
          IN /\ mongo' = kb1.mongo
             /\ chroma' = kb1.chroma
             /\ ctask' = [ctask EXCEPT
                   ![i].pc = "done",
                   ![i].compressed_item = compressed_item,
                   ![i].result = ctask[i].similar_candidates[1].section_id]
    /\ UNCHANGED <<batch, cpc, items, section_ids>>
    /\ UNCHANGED <<vars_learn, vars_detect, vars_select, vars_kb>>

\* A judgment or the compression raises.
ProcessItemFail(i) ==
    /\ CuratorTasksRunning
    /\ ctask[i].pc \in {"similarity", "subset", "compress"}
    /\ ctask' = [ctask EXCEPT ![i].pc = "failed"]
    /\ UNCHANGED <<mongo, chroma, batch, cpc, items, section_ids>>
    /\ UNCHANGED <<vars_learn, vars_detect, vars_select, vars_kb>>

\* [sid for sid in results if sid is not None]
SectionIds(tasks) ==
    LET idx == SetToSortedSeq({i \in 1..Len(tasks) : tasks[i].result # None})
    IN [k \in 1..Len(idx) |-> tasks[idx[k]].result]

AcurateGather ==
    /\ cpc = "curating"
    /\ \A i \in 1..Len(ctask) : ctask[i].pc = "done"
    /\ section_ids' = SectionIds(ctask)
    /\ cpc' = "done"
    /\ UNCHANGED <<mongo, chroma, batch, items, ctask>>
    /\ UNCHANGED <<vars_learn, vars_detect, vars_select, vars_kb>>

\* asyncio.gather re-raises the first exception; the other tasks are not
\* cancelled by it.
AcurateRaise ==
    /\ cpc = "curating"
    /\ \E i \in 1..Len(ctask) : ctask[i].pc = "failed"
    /\ cpc' = "failed"
    /\ UNCHANGED <<mongo, chroma, batch, items, ctask, section_ids>>
    /\ UNCHANGED <<vars_learn, vars_detect, vars_select, vars_kb>>

NextCurator ==
    \/ AcurateStart
    \/ \E i \in 1..Len(ctask) : ProcessItemSearch(i)
    \/ \E i \in 1..Len(ctask) : ProcessItemSimilarity(i)
    \/ \E i \in 1..Len(ctask) : ProcessItemSubset(i)
    \/ \E i \in 1..Len(ctask) : ProcessItemCompress(i)
    \/ \E i \in 1..Len(ctask) : ProcessItemFail(i)
    \/ AcurateGather
    \/ AcurateRaise

\* The knowledge base as an earlier batch (number 0) leaves it when its
\* items "a" and "ab" were both added.
SeedKb ==
    KbAdd(KbAdd(EmptyKb, SectionId(0, 1), HeaderOf("a"), "a", None),
          SectionId(0, 2), HeaderOf("ab"), "ab", None)

\* The knowledge base after an earlier batch added one section whose text
\* is longer than a chunk.
SeedLongKb == KbAdd(EmptyKb, SectionId(0, 3), HeaderOf("long"), "long", None)

InitCurator ==
    /\ graph = EmptyGraph
    /\ graph0 = graph
    /\ LearnIdle
    /\ \E kb \in {EmptyKb, SeedKb, SeedLongKb} :
          mongo = kb.mongo /\ chroma = kb.chroma
    /\ CuratorIdle
    /\ DetectIdle
    /\ SelectIdle
    /\ KbIdle

SpecCurator == InitCurator /\ [][NextCurator]_vars

\* ------------------------------------------- KnowledgeBase called directly
MaxKbCalls == 3

\* An identifier no section has.
MissingId == SectionId(0, 0)

KbCall(op, call_outcome) ==
    kb_call' = [n |-> kb_call.n + 1, op |-> op, outcome |-> call_outcome,
                before |-> Kb]

\* KnowledgeBase.add(header, content, parent_section); MongoKB.add raises
\* ValueError before it inserts when the parent is not stored.
KnowledgeBaseAdd ==
    /\ kb_call.n < MaxKbCalls
    /\ \E content \in Texts \cup {"long"},
          parent_section \in {None, MissingId} \cup SectionIdsOf(mongo) :
          IF /\ parent_section # None
             /\ MongoGet(mongo, parent_section) = NoSection
          THEN /\ KbCall("add", "ValueError")
               /\ UNCHANGED <<mongo, chroma>>
          ELSE LET kb1 == KbAdd(Kb, SectionId(0, kb_call.n + 1),
                                HeaderOf(content), content, parent_section)
               IN /\ mongo' = kb1.mongo
                  /\ chroma' = kb1.chroma
                  /\ KbCall("add", "returned")
    /\ UNCHANGED <<batch, cpc, items, ctask, section_ids>>
    /\ UNCHANGED <<vars_learn, vars_detect, vars_select>>

\* KnowledgeBase.update(identifier, header, content).
KnowledgeBaseUpdate ==
    /\ kb_call.n < MaxKbCalls
    /\ \E identifier \in {MissingId} \cup SectionIdsOf(mongo),
          content \in Texts \cup {"long"} :
          LET kb1 == KbUpdate(Kb, identifier, HeaderOf(content), content)
          IN /\ mongo' = kb1.mongo
             /\ chroma' = kb1.chroma
             /\ KbCall("update",
                       IF KbGet(Kb, identifier) = NoSection
                       THEN "False" ELSE "returned")
    /\ UNCHANGED <<batch, cpc, items, ctask, section_ids>>
    /\ UNCHANGED <<vars_learn, vars_detect, vars_select>>

\* KnowledgeBase.delete(identifier, recursive).
KnowledgeBaseDelete ==
    /\ kb_call.n < MaxKbCalls
    /\ \E identifier \in {MissingId} \cup SectionIdsOf(mongo),
          recursive \in BOOLEAN :
          LET kb1 == KbDelete(Kb, identifier, recursive)
          IN /\ mongo' = kb1.mongo
             /\ chroma' = kb1.chroma
             /\ KbCall("delete",
                       CASE KbGet(Kb, identifier) = NoSection -> "False"
                         [] /\ KbGet(Kb, identifier) # NoSection
                            /\ ~recursive
                            /\ MongoGetChildren(mongo, identifier) # {}
                              -> "ValueError"
                         [] OTHER -> "returned")
    /\ UNCHANGED <<batch, cpc, items, ctask, section_ids>>
    /\ UNCHANGED <<vars_learn, vars_detect, vars_select>>

NextKb ==
    \/ KnowledgeBaseAdd
    \/ KnowledgeBaseUpdate
    \/ KnowledgeBaseDelete

SpecKb == Init /\ [][NextKb]_vars


\* ============================================================ properties
StoredEntityIds(g) == {n.id : n \in g.Entity}
StoredRelationIds(g) == {r.id : r \in g.RELATES_TO}
IdsOf(seq) == {seq[j].id : j \in 1..Len(seq)}

NoSelfLoop(r) == r.from_id # r.to_id

\* C3: no self-relations.  Every RelatesTo relation that is stored, built,
\* resolved, queued for creation or update has from_id # to_id.
C3_NoSelfRelations ==
    /\ \A r \in graph.RELATES_TO : NoSelfLoop(r)
    /\ \A k \in 1..Len(extracted_relations) : NoSelfLoop(extracted_relations[k])
    /\ \A k \in 1..Len(new_relations) : NoSelfLoop(new_relations[k])
    /\ \A k \in 1..Len(relations_to_update) : NoSelfLoop(relations_to_update[k])
    /\ \A k \in 1..Len(rtask) :
         rtask[k].pc = "done" => NoSelfLoop(rtask[k].result.entity)

\* Two different extracted names resolved to the same stored entity, a fact
\* was proposed whose two endpoint names map to that one id, and learn
\* returned without a relation for it.
C3_Witness ==
    /\ pc = "done"
    /\ Len(extracted) = 2 /\ extracted[1] # extracted[2]
    /\ entities[1].id = entities[2].id
    /\ \E j \in 1..Len(proposed_facts) :
         /\ EntityMapGet(entities, proposed_facts[j].from_entity) # None
         /\ EntityMapGet(entities, proposed_facts[j].from_entity)
              = EntityMapGet(entities, proposed_facts[j].to_entity)
    /\ extracted_relations = <<>>

\* C7: resolution failures are isolated.  A learn invocation does not end in
\* failure because the similarity search or the judgment of one candidate
\* raised.
C7_ResolutionFailureIsolated ==
    ~(pc = "failed" /\ failure \in {"resolve_entities", "resolve_relations"})

\* Every resolution task of the invocation has completed and been collected.
ResolutionComplete ==
    /\ etask = <<>> /\ rtask = <<>>
    /\ Len(ecompleted) = Len(extracted)
    /\ Len(rcompleted) = Len(extracted_relations)
    /\ pc \in {"create_nodes", "create_relations", "update_relations"}

\* C8: barrier before persistence.  A step that writes to the store is taken
\* only when every entity-resolution task and every fact-resolution task of
\* the invocation has completed and been collected.
C8_BarrierBeforePersistence ==
    [][graph' # graph => ResolutionComplete]_vars

\* The store has been written after two entity tasks that completed in the
\* reverse of their input order and one fact task.
C8_Witness ==
    /\ graph # graph0
    /\ ecompleted = <<2, 1>>
    /\ rcompleted = <<1>>

\* The outcome of each candidate against the store as the invocation found it.
ExpectedEntityResults ==
    [i \in 1..Len(etask) |->
       EntityOutcome(FindSimilarEntities(graph0, Embedding(extracted[i]), doc),
                     etask[i].resolution,
                     NewEntityNode(doc, i, extracted[i]))]

ExpectedRelationResults ==
    [k \in 1..Len(rtask) |->
       RelationOutcome(
           FindSimilarRelations(graph0, extracted_relations[k].fact_embedding),
           rtask[k].resolution, extracted_relations[k])]

\* C9: resolution is independent of completion order.  With the store and
\* the answers of the judgment fixed, what the gather of a batch returns
\* is, in input order, the outcome of each candidate against the store as
\* it was when the invocation started.
C9_OrderIndependent ==
    [][/\ (pc = "resolve_entities" /\ pc' \in {"extract_facts", "create_nodes"})
          => /\ entities' = [i \in 1..Len(etask) |->
                               ExpectedEntityResults[i].entity]
             /\ new_entities' = Selected(ExpectedEntityResults, 0)
       /\ (pc = "resolve_relations" /\ pc' = "create_nodes")
          => /\ new_relations' = Selected(ExpectedRelationResults, 0)
             /\ relations_to_update' = Selected(ExpectedRelationResults, 1)
             /\ routcome' = [k \in 1..Len(rtask) |->
                               [action |-> ExpectedRelationResults[k].action,
                                id |-> ExpectedRelationResults[k].entity.id]]
      ]_vars

\* A batch whose second candidate completed first, the first reusing a
\* stored entity and the second coming out new.
C9_Witness ==
    /\ pc = "extract_facts"
    /\ ecompleted = <<2, 1>>
    /\ entities[1].id \in StoredEntityIds(graph0)
    /\ entities[2].id = EntityId(doc, 2)

\* C10: extraction failure commits nothing.  When extract_entities or
\* extract_facts raises, learn ends in failure with the store as it was
\* when the invocation started.
C10_ExtractionFailureCommitsNothing ==
    (pc = "failed" /\ failure \in {"extract_entities", "extract_facts"})
       => graph = graph0

\* Fact extraction failed after entity resolution had produced a new entity.
C10_Witness ==
    /\ pc = "failed" /\ failure = "extract_facts"
    /\ new_entities # <<>>
    /\ graph = graph0

\* The stored entities named n.
EntitiesNamed(g, n) == {e \in g.Entity : e.name = n}

ReturnsStored(n) ==
    \A i \in 1..Len(etask) :
       (etask[i].pc = "done" /\ extracted[i] = n
          /\ EntitiesNamed(graph, n) # {}) =>
         /\ etask[i].result.action = 1
         /\ etask[i].result.entity.id \in {e.id : e \in EntitiesNamed(graph, n)}

MentionedOnce ==
    (pc = "done" /\ \E i \in 1..Len(extracted) : extracted[i] = TrackedName) =>
       \A i \in 1..Len(extracted) :
          extracted[i] = TrackedName =>
             Cardinality({e \in graph.Entity : e.id = entities[i].id}) = 1

C2_NoDuplicateGrowthAmended ==
    mention = "faithful" =>
       /\ Cardinality(EntitiesNamed(graph, TrackedName)) <= 1
       /\ ReturnsStored(TrackedName)
       /\ MentionedOnce

\* A document names the stored entity twice; both resolutions returned the
\* stored entity and the store still holds exactly one node of that name.
C2_Witness ==
    /\ pc = "done" /\ mention = "faithful"
    /\ extracted = <<TrackedName, TrackedName>>
    /\ EntitiesNamed(graph0, TrackedName) # {}
    /\ entities[1].id = entities[2].id
    /\ entities[1].id \in StoredEntityIds(graph0)
    /\ Cardinality(EntitiesNamed(graph, TrackedName)) = 1

\* y is x in every field but sources and created_at.
KeepsAllButSources(x, y) ==
    /\ y.from_id = x.from_id /\ y.to_id = x.to_id
    /\ y.relation_type = x.relation_type
    /\ y.fact = x.fact
    /\ y.fact_embedding = x.fact_embedding
    /\ y.contradictory_relations = x.contradictory_relations

StoredRelation(g, x) == CHOOSE r \in g.RELATES_TO : r.id = x

MergedSources ==
    pc = "done" =>
       \A k \in 1..Len(routcome) :
          routcome[k].action = 1 =>
            /\ routcome[k].id \in StoredRelationIds(graph0)
            /\ routcome[k].id \in StoredRelationIds(graph)
            /\ Range(StoredRelation(graph, routcome[k].id).sources)
                 = Range(StoredRelation(graph0, routcome[k].id).sources)
                     \cup Range(extracted_relations[k].sources)
            /\ extracted_relations[k].id \notin StoredRelationIds(graph)

\* What holds of a merge: the same frame without created_at.
C4_FrameExceptCreatedAt ==
    [][/\ \A x \in graph.RELATES_TO :
            \E y \in graph'.RELATES_TO :
               /\ y.id = x.id
               /\ KeepsAllButSources(x, y)
               /\ Range(x.sources) \subseteq Range(y.sources)
       /\ MergedSources']_vars

\* C4: duplicate-and-merge changes only the evidence list.  Across every
\* step, a stored relation keeps its id, endpoints, relation_type, fact,
\* fact_embedding, contradictory_relations and created_at, and its sources
\* lose no element; when learn has returned, a relation a new fact was
\* merged into has the union of its old sources and the new ones, and no
\* relation was created for that fact.
C4_MergeChangesOnlySources ==
    [][/\ \A x \in graph.RELATES_TO :
            \E y \in graph'.RELATES_TO :
               /\ y.id = x.id
               /\ KeepsAllButSources(x, y)
               /\ y.created_at = x.created_at
               /\ Range(x.sources) \subseteq Range(y.sources)
       /\ MergedSources']_vars

\* The fact k was judged to hold part of what a stored relation holds.
JudgedSubset(k) ==
    /\ routcome[k].action = 1
    /\ routcome[k].id \in StoredRelationIds(graph0)
    /\ StoredRelation(graph0, routcome[k].id).fact # extracted_relations[k].fact

CuratorSteps(i) == i \in DOMAIN ctask /\ i \in DOMAIN ctask' /\ batch' = batch

\* The section x holds the same header and text in both stores of kb.
Holds(kb, x, item) ==
    /\ \E s \in kb.mongo :
          s.section_id = x /\ s.header = item.header
                           /\ s.content = item.content
    /\ \A d \in kb.chroma :
          d.section_id = x => d.header = item.header
                              /\ d.document = item.content
    /\ \E d \in kb.chroma : d.section_id = x

\* text1 says strictly less than text2.
StrictSubset(text1, text2) == text1 = "a" /\ text2 = "ab"

\* text1 and text2 have highly similar substance.
SameSubstance(text1, text2) ==
    text1 = text2 \/ {text1, text2} = {"a", "ab"}

\* The similarity and subset judgments the task received are the true ones.
JudgedTruly(t) ==
    /\ t.similar_candidates =
          SimilarCandidates(t.candidates,
              [k \in 1..Len(t.candidates) |->
                  SameSubstance(t.item.content, t.candidates[k].content)])
    /\ \A k \in 1..Len(t.subset_results) :
          t.subset_results[k]
            <=> StrictSubset(t.item.content, t.similar_candidates[k].content)

C29_CuratedIdsExist ==
    /\ cpc = "done"
         => \A k \in 1..Len(section_ids) :
               section_ids[k] \in SectionIdsOf(mongo)
    /\ cpc \in {"curating", "done"}
         => \A i \in 1..Len(ctask) :
               (ctask[i].pc = "done" /\ ctask[i].result # None)
                 => ctask[i].result \in SectionIdsOf(mongo)

\* C30: after any sequence of KnowledgeBase.add, update and delete calls a
\* section is in the Mongo store exactly if chunks of it are in the Chroma
\* store, and a delete that was rejected with ValueError has left both
\* stores as they were.
C30_StoresConsistent ==
    /\ SectionIdsOf(mongo) = {d.section_id : d \in chroma}
    /\ (kb_call.op = "delete" /\ kb_call.outcome = "ValueError")
         => Kb = kb_call.before

\* ------------------------------------------------------- C11 .. C14
\* The entities of the store that the invocation created or whose relations
\* it created or updated.
ChangedEntityIds ==
    {new_entities[i].id : i \in 1..Len(new_entities)}
    \cup {new_relations[k].from_id : k \in 1..Len(new_relations)}
    \cup {new_relations[k].to_id : k \in 1..Len(new_relations)}
    \cup {relations_to_update[k].from_id : k \in 1..Len(relations_to_update)}
    \cup {relations_to_update[k].to_id : k \in 1..Len(relations_to_update)}

CreatedIds(label) ==
    {x.id : x \in graph[label]} \ {x.id : x \in graph0[label]}

\* C12: every id learn returns is the id of a node or relation that this
\* invocation created in the store: a reused entity and a relation that was
\* only updated are not among the returned ids.
C12_ReturnedIdsAreCreated ==
    pc = "done" =>
        /\ result.source_id \in CreatedIds("Source")
        /\ Range(result.entity_ids) \subseteq CreatedIds("Entity")
        /\ Range(result.relation_ids)
             \subseteq CreatedIds("MENTIONS") \cup CreatedIds("RELATES_TO")

\* C13: the statement of an update batch assigns only `sources`: it never
\* assigns id, created_at, relation_type, fact, fact_embedding or
\* contradictory_relations.
C13_UpdateAssignsOnlySources ==
    \A j \in 1..Len(statements) :
        statements[j].kind = "update_relations"
            => statements[j].assigns \subseteq {"sources"}

\* The statements of `issued` form one statement per key of the batch, and
\* every object is in the payload of exactly one of them, that of its key.
OnePerGroup(objects, keys, label, issued) ==
    /\ Len(issued) = Cardinality(Range(keys))
    /\ \A i \in 1..Len(objects) :
         /\ Cardinality({<<j, k>> \in (1..Len(issued)) \X (1..Len(objects)) :
               /\ k <= Len(issued[j].payload)
               /\ issued[j].payload[k] = objects[i].id}) = 1
         /\ \A j \in 1..Len(issued) :
              objects[i].id \in Range(issued[j].payload)
                  => issued[j].label = label[keys[i]]
    /\ objects = <<>> => issued = <<>>

\* C14: bulk_create_nodes and bulk_create_relations run one statement per
\* node type or relation class present in the batch, every object is in the
\* payload of exactly one statement, that of its own type, and an empty
\* batch runs no statement.
C14_OneStatementPerGroup ==
    [][LET issued == SubSeq(statements', Len(statements) + 1, Len(statements'))
           nodes == <<source_node>> \o new_entities
           relations == mentions_relations \o new_relations
       IN /\ (pc = "create_nodes" /\ pc' = "create_relations")
               => OnePerGroup(nodes,
                              [i \in 1..Len(nodes) |-> NodeType(nodes[i])],
                              [t \in NodeTypes |-> t], issued)
          /\ (pc = "create_relations" /\ pc' = "update_relations")
               => OnePerGroup(relations,
                              [i \in 1..Len(relations) |->
                                 RelationClass(relations[i])],
                              [c \in RelationClasses |-> RelationTypeOf(c)],
                              issued)]_vars

\* A batch with two entities next to the source, relations of both classes,
\* and an empty update batch.
C14_Witness ==
    /\ pc = "done"
    /\ relations_to_update = <<>>
    /\ \E j \in 1..Len(statements) :
         /\ statements[j].kind = "create_nodes"
         /\ statements[j].label = "Entity"
         /\ Len(statements[j].payload) = 2
    /\ {statements[j].label : j \in 1..Len(statements)}
         = {"Source", "Entity", "MENTIONS", "RELATES_TO"}
    /\ Len(statements) = 4

\* ------------------------------------------------- community detection
\* Bounds of the entity graph the topics are detected in.
MaxNodes == 3
MaxRelations == 3

TopicId(k) == 70 + k

Max(S) == CHOOSE x \in S : \A y \in S : y <= x

RECURSIVE Flatten(_)
Flatten(ss) == IF ss = <<>> THEN <<>> ELSE Head(ss) \o Flatten(Tail(ss))

\* _build_graph: one node per entity and relation endpoint in insertion
\* order, one undirected edge per connected pair.
BuildGraph(entity_ids, relations) ==
    LET ends == {relations[i].from_id : i \in 1..Len(relations)}
                \cup {relations[i].to_id : i \in 1..Len(relations)}
    IN [nodes |-> entity_ids \o SetToSortedSeq(ends \ Range(entity_ids)),
        edges |-> {{relations[i].from_id, relations[i].to_id} :
                      i \in 1..Len(relations)}]

\* Community numberings as the library renumbers them: 0, 1, ... in order
\* of first appearance.
Renumbered(keys) ==
    {f \in [Range(keys) -> 0..(Len(keys) - 1)] :
        /\ Len(keys) > 0 => f[keys[1]] = 0
        /\ \A i \in 2..Len(keys) :
             f[keys[i]] <= Max({f[keys[j]] : j \in 1..(i - 1)}) + 1}

NumCommunities(f) == Cardinality({f[k] : k \in DOMAIN f})

\* The further levels of a dendrogram above a partition into k communities:
\* each level maps the communities below it onto fewer communities.
RECURSIVE Coarsenings(_)
Coarsenings(k) ==
    {<<>>} \cup
    UNION {{<<f>> \o rest : rest \in Coarsenings(NumCommunities(f))} :
             f \in {g \in Renumbered([i \in 1..k |-> i - 1]) :
                      NumCommunities(g) < k}}

\* community_louvain.generate_dendrogram: a graph without edges has the
\* single level of one community per node; otherwise a first partition of
\* the nodes followed by its coarsenings.
GenerateDendrogram(g) ==
    IF g.edges = {}
    THEN {<<[n \in Range(g.nodes) |->
               (CHOOSE i \in 1..Len(g.nodes) : g.nodes[i] = n) - 1]>>}
    ELSE UNION {{<<f>> \o rest : rest \in Coarsenings(NumCommunities(f))} :
                  f \in Renumbered(g.nodes)}

\* The community of a node at a dendrogram level, by dict.get(key, 0)
\* through the levels.
RECURSIVE CommunityAt(_, _, _)
CommunityAt(dendro, node, level) ==
    LET key == IF level = 0 THEN node
               ELSE CommunityAt(dendro, node, level - 1)
    IN IF key \in DOMAIN dendro[level + 1] THEN dendro[level + 1][key] ELSE 0

\* level_partitions[stored_level]
LevelPartition(g, dendro, stored_level) ==
    [n \in Range(g.nodes) |-> CommunityAt(dendro, n, stored_level + 1)]

\* The (level, community) pairs in the order their topics are created.
RECURSIVE TopicKeys(_, _, _)
TopicKeys(g, dendro, stored_level) ==
    IF stored_level < 0 THEN <<>>
    ELSE LET part == LevelPartition(g, dendro, stored_level)
             comms == SetToSortedSeq({part[n] : n \in DOMAIN part})
         IN TopicKeys(g, dendro, stored_level - 1)
            \o [i \in 1..Len(comms) |-> <<stored_level, comms[i]>>]

TopicNode(k, name, level) ==
    [id |-> TopicId(k), name |-> name, summary |-> [kind |-> "", of |-> {}],
     summary_embedding |-> <<>>, level |-> level]

\* level_topic_map[(level, community)]
LevelTopicMap(keys, key) ==
    TopicId(CHOOSE k \in 1..Len(keys) : keys[k] = key)

\* One pair per node, whether or not its community was seen before.
ChildToParentPerNode(g, child_part, parent_part) ==
    [i \in 1..Len(g.nodes) |->
       <<child_part[g.nodes[i]], parent_part[g.nodes[i]]>>]

\* child_to_parent.items() of one level: a key per child community in
\* order of first appearance, with the parent written last.
ChildToParent(g, child_part, parent_part) ==
    LET IsFirst(i) ==
            \A j \in 1..(i - 1) : child_part[g.nodes[j]] # child_part[g.nodes[i]]
        firsts == SelectSeq([i \in 1..Len(g.nodes) |-> i], IsFirst)
        Last(c) == Max({i \in 1..Len(g.nodes) : child_part[g.nodes[i]] = c})
    IN [j \in 1..Len(firsts) |->
          LET c == child_part[g.nodes[firsts[j]]]
          IN <<c, parent_part[g.nodes[Last(c)]]>>]

\* The subtopic relations between one level and the next.
SubtopicsOfLevel(g, dendro, keys, stored_level) ==
    LET pairs == ChildToParent(g, LevelPartition(g, dendro, stored_level),
                               LevelPartition(g, dendro, stored_level + 1))
    IN [j \in 1..Len(pairs) |->
          [from_id |-> LevelTopicMap(keys, <<stored_level, pairs[j][1]>>),
           to_id |-> LevelTopicMap(keys, <<stored_level + 1, pairs[j][2]>>)]]

\* The fields LouvainDetector.detect passes to CommunityHierarchy.
LouvainHierarchy(g, dendro) ==
    IF Len(g.nodes) = 0 \/ Len(dendro) <= 1
    THEN [topics |-> <<>>, subtopic_relations |-> <<>>,
          belongs_to_relations |-> <<>>, num_levels |-> 0]
    ELSE LET num_levels == Len(dendro) - 1
             keys == TopicKeys(g, dendro, num_levels - 1)
             finest == LevelPartition(g, dendro, 0)
         IN [topics |->
                [k \in 1..Len(keys) |->
                   TopicNode(k, <<"Topic", keys[k][1], keys[k][2]>>,
                             keys[k][1])],
             subtopic_relations |->
                Flatten([l \in 1..(num_levels - 1) |->
                           SubtopicsOfLevel(g, dendro, keys, l - 1)]),
             belongs_to_relations |->
                [i \in 1..Len(g.nodes) |->
                   [from_id |-> g.nodes[i],
                    to_id |-> LevelTopicMap(keys, <<0, finest[g.nodes[i]]>>)]],
             num_levels |-> num_levels]

\* CommunityHierarchy(**fields): every field is required.
Validate(fields) ==
    IF {"topics", "subtopic_relations", "belongs_to_relations",
        "updated_relations", "num_levels"} \subseteq DOMAIN fields
    THEN "returned"
    ELSE "ValidationError"

\* ---------------------------------------------- hierarchical link clustering
\* tuple(sorted([from_id, to_id]))
EdgeOf(relation) ==
    IF relation.from_id <= relation.to_id
    THEN <<relation.from_id, relation.to_id>>
    ELSE <<relation.to_id, relation.from_id>>

\* The keys of edge_to_relation in insertion order.
EdgeKeys(relations) ==
    LET IsFirst(i) ==
            \A j \in 1..(i - 1) : EdgeOf(relations[j]) # EdgeOf(relations[i])
        firsts == SelectSeq([i \in 1..Len(relations) |-> i], IsFirst)
    IN [j \in 1..Len(firsts) |-> EdgeOf(relations[firsts[j]])]

\* The merges single-linkage clustering can make from the live communities
\* (two communities with edges that share a node),
\* each recorded as (larger community, smaller community) and replaced by a
\* community with the next id.
RECURSIVE MergeOrders(_, _)
MergeOrders(live, maxcid) ==
    LET pairs == {p \in (DOMAIN live) \X (DOMAIN live) :
                    /\ p[1] # p[2]
                    /\ \E e1 \in live[p[1]], e2 \in live[p[2]] :
                         Range(e1) \cap Range(e2) # {}
                    /\ Cardinality(live[p[1]]) >= Cardinality(live[p[2]])}
        Merged(p) ==
            [cid \in (DOMAIN live \ {p[1], p[2]}) \cup {maxcid + 1} |->
               IF cid = maxcid + 1 THEN live[p[1]] \cup live[p[2]]
               ELSE live[cid]]
    IN IF pairs = {} THEN {<<>>}
       ELSE UNION {{<<p>> \o rest : rest \in MergeOrders(Merged(p), maxcid + 1)} :
                     p \in pairs}

\* edge2cid after the first t merges of a linkage.
RECURSIVE PartitionAfter(_, _, _, _)
PartitionAfter(edge2cid, merges, t, maxcid) ==
    IF t = 0 THEN edge2cid
    ELSE LET p == Head(merges)
         IN PartitionAfter(
                [e \in DOMAIN edge2cid |->
                   IF edge2cid[e] \in {p[1], p[2]} THEN maxcid + 1
                   ELSE edge2cid[e]],
                Tail(merges), t - 1, maxcid + 1)

\* HLC(adj, edges).single_linkage(threshold=None, dendro_flag=True): every
\* edge starts as its own community, the linkage lists all merges at
\* falling similarity, and edge2cid is the partition at one of the cuts.
SingleLinkage(edge_keys) ==
    LET m == Len(edge_keys)
        initial == [cid \in 0..(m - 1) |-> {edge_keys[cid + 1]}]
        orig == [e \in Range(edge_keys) |->
                   (CHOOSE i \in 1..m : edge_keys[i] = e) - 1]
    IN UNION {{[edge2cid |-> PartitionAfter(orig, merges, t, m - 1),
                 linkage |-> [i \in 1..Len(merges) |->
                                <<merges[i][1], merges[i][2], 100 - 10 * i>>]] :
                   t \in 0..Len(merges)} :
                merges \in MergeOrders(initial, m - 1)}

\* The level of the parent of a merge, from the levels of its children
\* (-1 for a child that is not live).
ParentLevelOfLower(child1_level, child2_level) ==
    (IF child1_level <= child2_level THEN child1_level ELSE child2_level) + 1

ParentLevel(child1_level, child2_level) ==
    (IF child1_level >= child2_level THEN child1_level ELSE child2_level) + 1

\* The loop over the linkage: every merge with a live child creates a parent
\* topic with the next community id and a subtopic relation per live child.
RECURSIVE ReplayLinkage(_, _)
ReplayLinkage(acc, linkage) ==
    IF linkage = <<>> THEN acc
    ELSE LET child1_cid == Head(linkage)[1]
             child2_cid == Head(linkage)[2]
             child1_exists == child1_cid \in DOMAIN acc.cid_to_topic_id
             child2_exists == child2_cid \in DOMAIN acc.cid_to_topic_id
             child1_level ==
                 IF child1_exists THEN acc.cid_to_level[child1_cid] ELSE -1
             child2_level ==
                 IF child2_exists THEN acc.cid_to_level[child2_cid] ELSE -1
             parent_cid == acc.next_cid
             parent_level == ParentLevel(child1_level, child2_level)
             parent_topic ==
                 TopicNode(Len(acc.topics) + 1,
                           <<"EdgeCommunity", parent_level, parent_cid>>,
                           parent_level)
             Subtopic(exists, cid) ==
                 IF exists
                 THEN <<[from_id |-> acc.cid_to_topic_id[cid],
                         to_id |-> parent_topic.id]>>
                 ELSE <<>>
         IN IF ~child1_exists /\ ~child2_exists
            THEN ReplayLinkage(acc, Tail(linkage))
            ELSE ReplayLinkage(
                   [topics |-> Append(acc.topics, parent_topic),
                    cid_to_topic_id |->
                        acc.cid_to_topic_id @@ (parent_cid :> parent_topic.id),
                    cid_to_level |->
                        acc.cid_to_level @@ (parent_cid :> parent_level),
                    next_cid |-> parent_cid + 1,
                    subtopic_relations |->
                        acc.subtopic_relations
                        \o Subtopic(child1_exists, child1_cid)
                        \o Subtopic(child2_exists, child2_cid)],
                   Tail(linkage))

\* _build_hierarchy_from_linkage
BuildHierarchyFromLinkage(edge2cid, linkage, relations) ==
    LET cids == SetToSortedSeq({edge2cid[e] : e \in DOMAIN edge2cid})
        leaves == [k \in 1..Len(cids) |->
                     TopicNode(k, <<"EdgeCommunity", 0, cids[k]>>, 0)]
        cid_to_topic_id ==
            [cid \in Range(cids) |->
               TopicId(CHOOSE k \in 1..Len(cids) : cids[k] = cid)]
        edge_keys == EdgeKeys(relations)
        tagged ==
            [j \in 1..Len(edge_keys) |->
               LET \* edge_to_relation[edge]: each relation overwrites the
                   \* entry of its edge.
                   rel == relations[Max({i \in 1..Len(relations) :
                                 EdgeOf(relations[i]) = edge_keys[j]})]
               IN [id |-> rel.id, from_id |-> rel.from_id, to_id |-> rel.to_id,
                   topic_id |-> cid_to_topic_id[edge2cid[edge_keys[j]]]]]
        node_ids == SetToSortedSeq(UNION {Range(e) : e \in DOMAIN edge2cid})
        NodeTopics(n) ==
            SetToSortedSeq({cid_to_topic_id[edge2cid[e]] :
                              e \in {x \in DOMAIN edge2cid : n \in Range(x)}})
        belongs_to ==
            Flatten([i \in 1..Len(node_ids) |->
                       LET ts == NodeTopics(node_ids[i])
                       IN [k \in 1..Len(ts) |->
                             [from_id |-> node_ids[i], to_id |-> ts[k]]]])
        replayed ==
            ReplayLinkage(
                [topics |-> leaves, cid_to_topic_id |-> cid_to_topic_id,
                 cid_to_level |-> [cid \in Range(cids) |-> 0],
                 next_cid |-> Max(Range(cids)) + 1,
                 subtopic_relations |-> <<>>],
                linkage)
    IN [topics |-> replayed.topics,
        subtopic_relations |-> replayed.subtopic_relations,
        belongs_to_relations |-> belongs_to,
        updated_relations |-> tagged,
        num_levels |->
            IF linkage = <<>> THEN 1
            ELSE Max({replayed.topics[k].level :
                        k \in 1..Len(replayed.topics)}) + 1]

\* ------------------------------------------------- TopicManager.detect
\* The most thresholds a threshold selector chooses.
MaxThresholds == 2

\* The store write that tags a relation with its topic.
TagRelations(tags, relations) ==
    [id \in DOMAIN tags \cup {relations[i].id : i \in 1..Len(relations)} |->
       IF \E i \in 1..Len(relations) : relations[i].id = id
       THEN relations[Max({i \in 1..Len(relations) : relations[i].id = id})]
                .topic_id
       ELSE tags[id]]

\* The relations of a hierarchy as created in the store, one per object.
StoredEdges(relations) ==
    {[id |-> j, from_id |-> relations[j].from_id, to_id |-> relations[j].to_id] :
        j \in 1..Len(relations)}

\* detect is called, with or without a threshold selector (given here by
\* the number of thresholds it chooses).
TopicManagerDetect ==
    /\ tpc = "idle"
    /\ tpc' = "detect"
    /\ algorithm' \in {"louvain", "hlc"}
    /\ threshold_selector' \in {None} \cup 1..MaxThresholds
    /\ UNCHANGED <<kg_entities, kg_relations, dendrogram, hlc, hierarchy,
                   outcome, topic_store,
                   summaries, assign_call>>
    /\ UNCHANGED <<vars_learn, vars_curator, vars_select, vars_kb>>

\* algorithm.detect(entities, relations, **kwargs) with a keyword argument
\* neither detector's detect accepts.
DetectTypeError ==
    /\ tpc = "detect"
    /\ threshold_selector # None
    /\ outcome' = "TypeError"
    /\ tpc' = "failed"
    /\ UNCHANGED <<kg_entities, kg_relations, algorithm, threshold_selector,
                   dendrogram, hlc, hierarchy, topic_store,
                   summaries, assign_call>>
    /\ UNCHANGED <<vars_learn, vars_curator, vars_select, vars_kb>>

\* LouvainDetector.detect
LouvainDetect ==
    /\ tpc = "detect"
    /\ algorithm = "louvain"
    /\ threshold_selector = None
    /\ LET g == BuildGraph(kg_entities, kg_relations)
       IN \E dendro \in GenerateDendrogram(g) :
            /\ dendrogram' = IF Len(g.nodes) = 0 THEN <<>> ELSE dendro
            /\ hierarchy' = LouvainHierarchy(g, dendro)
    /\ outcome' = Validate(hierarchy')
    /\ tpc' = IF outcome' = "returned" THEN "persist" ELSE "failed"
    /\ UNCHANGED <<kg_entities, kg_relations, algorithm, threshold_selector,
                   hlc, topic_store,
                   summaries, assign_call>>
    /\ UNCHANGED <<vars_learn, vars_curator, vars_select, vars_kb>>

\* HLCDetector.detect
HLCDetect ==
    /\ tpc = "detect"
    /\ algorithm = "hlc"
    /\ threshold_selector = None
    /\ LET g == BuildGraph(kg_entities, kg_relations)
       IN IF Len(g.nodes) = 0 \/ g.edges = {}
          THEN /\ hierarchy' = EmptyHierarchy
               /\ UNCHANGED hlc
          ELSE \E r \in SingleLinkage(EdgeKeys(kg_relations)) :
                 /\ hlc' = r
                 /\ hierarchy' = BuildHierarchyFromLinkage(
                                     r.edge2cid, r.linkage, kg_relations)
    /\ outcome' = Validate(hierarchy')
    /\ tpc' = IF outcome' = "returned" THEN "persist" ELSE "failed"
    /\ UNCHANGED <<kg_entities, kg_relations, algorithm, threshold_selector,
                   dendrogram, topic_store,
                   summaries, assign_call>>
    /\ UNCHANGED <<vars_learn, vars_curator, vars_select, vars_kb>>

\* The three bulk writes of the hierarchy.
PersistHierarchy ==
    /\ tpc = "persist"
    /\ topic_store' =
         [Topic |-> topic_store.Topic \cup Range(hierarchy.topics),
          IS_SUBTOPIC |-> topic_store.IS_SUBTOPIC
                          \cup StoredEdges(hierarchy.subtopic_relations),
          BELONGS_TO |-> topic_store.BELONGS_TO
                         \cup StoredEdges(hierarchy.belongs_to_relations),
          topic_id |-> TagRelations(topic_store.topic_id,
                                    hierarchy.updated_relations)]
    /\ tpc' = "summarize"
    /\ UNCHANGED <<kg_entities, kg_relations, algorithm, threshold_selector,
                   dendrogram, hlc, hierarchy, outcome,
                   summaries, assign_call>>
    /\ UNCHANGED <<vars_learn, vars_curator, vars_select, vars_kb>>

\* TopicNode.get_children and Neo4jDriver.get_children: the topics at the
\* end of an IS_SUBTOPIC edge that starts at the given topic.
GetChildren(store, topic_id) ==
    {child \in store.Topic :
        \E r \in store.IS_SUBTOPIC :
            r.from_id = topic_id /\ r.to_id = child.id}

\* Neo4jDriver.get_parent: the ids it can return, the first row of the
\* topics an IS_SUBTOPIC edge leads from to the given topic, or None.
GetParent(store, topic_id) ==
    LET parents == {parent \in store.Topic :
                      \E r \in store.IS_SUBTOPIC :
                          r.from_id = parent.id /\ r.to_id = topic_id}
    IN IF parents = {} THEN {None} ELSE {parent.id : parent \in parents}

\* TopicNode.summarize: a leaf topic is summarized from the entities that
\* belong to it, any other topic from the children fetched for it; the
\* summary records what it was made from.
Summarize(store, topic) ==
    IF topic.level = 0
    THEN LET entity_ids == {r.from_id : r \in {x \in store.BELONGS_TO :
                                                  x.to_id = topic.id}}
         IN IF entity_ids = {} THEN [kind |-> "Empty Topic", of |-> {}]
            ELSE [kind |-> "leaf", of |-> entity_ids]
    ELSE LET children == GetChildren(store, topic.id)
         IN IF children = {} THEN [kind |-> "Empty Parent Topic", of |-> {}]
            ELSE [kind |-> "parent", of |-> {child.id : child \in children}]

\* Every topic, whatever its level.
LevelTopicsOfAnyLevel(topics, level) == 1..Len(topics)

\* topics_by_level[level], as positions in the list of topics.
LevelTopics(topics, level) ==
    {k \in 1..Len(topics) : topics[k].level = level}

\* The levels of the loop that are still to come.
PendingLevels ==
    {l \in {hierarchy.topics[k].level : k \in 1..Len(hierarchy.topics)} :
        l > summaries.level}

\* One round of the loop starts: asyncio.gather creates a summarize task for
\* each topic of the next level that has topics.
GatherLevel ==
    /\ tpc = "summarize"
    /\ summaries.tasks = <<>>
    /\ PendingLevels # {}
    /\ LET level == CHOOSE l \in PendingLevels : \A m \in PendingLevels : l <= m
       IN summaries' =
            [level |-> level,
             tasks |-> [k \in LevelTopics(hierarchy.topics, level) |->
                          [pc |-> "created",
                           summary |-> [kind |-> "", of |-> {}]]]]
    /\ UNCHANGED <<kg_entities, kg_relations, tpc, algorithm,
                   threshold_selector, dendrogram, hlc, hierarchy, outcome,
                   topic_store, assign_call>>
    /\ UNCHANGED <<vars_learn, vars_curator, vars_select, vars_kb>>

\* A summarize task starts: it reads the store.
SummarizeStart ==
    /\ tpc = "summarize"
    /\ \E k \in DOMAIN summaries.tasks :
         /\ summaries.tasks[k].pc = "created"
         /\ summaries' =
              [summaries EXCEPT
                 !.tasks[k] = [pc |-> "running",
                               summary |-> Summarize(topic_store,
                                                     hierarchy.topics[k])]]
    /\ UNCHANGED <<kg_entities, kg_relations, tpc, algorithm,
                   threshold_selector, dendrogram, hlc, hierarchy, outcome,
                   topic_store, assign_call>>
    /\ UNCHANGED <<vars_learn, vars_curator, vars_select, vars_kb>>

\* A summarize task returns its TopicSummary.
SummarizeComplete ==
    /\ tpc = "summarize"
    /\ \E k \in DOMAIN summaries.tasks :
         /\ summaries.tasks[k].pc = "running"
         /\ summaries' = [summaries EXCEPT !.tasks[k].pc = "done"]
    /\ UNCHANGED <<kg_entities, kg_relations, tpc, algorithm,
                   threshold_selector, dendrogram, hlc, hierarchy, outcome,
                   topic_store, assign_call>>
    /\ UNCHANGED <<vars_learn, vars_curator, vars_select, vars_kb>>

\* A summarize task raises (a store or model call fails): gather passes the
\* exception on and detect ends with it.
SummarizeRaise ==
    /\ tpc = "summarize"
    /\ \E k \in DOMAIN summaries.tasks : summaries.tasks[k].pc = "running"
    /\ tpc' = "failed"
    /\ UNCHANGED <<kg_entities, kg_relations, algorithm, threshold_selector,
                   dendrogram, hlc, hierarchy, outcome, topic_store,
                   summaries, assign_call>>
    /\ UNCHANGED <<vars_learn, vars_curator, vars_select, vars_kb>>

\* gather has returned: the topics of the level get their names and
\* summaries, on the objects and then (_bulk_update_topic_summaries) in the
\* store.
UpdateTopicSummaries ==
    /\ tpc = "summarize"
    /\ summaries.tasks # <<>>
    /\ \A k \in DOMAIN summaries.tasks : summaries.tasks[k].pc = "done"
    /\ LET Updated(topic, k) ==
               [topic EXCEPT !.name = <<"Summary", topic.level, topic.id>>,
                             !.summary = summaries.tasks[k].summary]
       IN /\ hierarchy' =
               [hierarchy EXCEPT !.topics =
                  [k \in 1..Len(hierarchy.topics) |->
                     IF k \in DOMAIN summaries.tasks
                     THEN Updated(hierarchy.topics[k], k)
                     ELSE hierarchy.topics[k]]]
          /\ topic_store' =
               [topic_store EXCEPT !.Topic =
                  {IF \E k \in DOMAIN summaries.tasks :
                         hierarchy.topics[k].id = t.id
                   THEN Updated(t, CHOOSE k \in DOMAIN summaries.tasks :
                                      hierarchy.topics[k].id = t.id)
                   ELSE t : t \in topic_store.Topic}]
    /\ summaries' = [summaries EXCEPT !.tasks = <<>>]
    /\ UNCHANGED <<kg_entities, kg_relations, tpc, algorithm,
                   threshold_selector, dendrogram, hlc, outcome, assign_call>>
    /\ UNCHANGED <<vars_learn, vars_curator, vars_select, vars_kb>>

\* No topics, or no level left: _generate_summaries returns and detect
\* returns the hierarchy.
GenerateSummariesReturn ==
    /\ tpc = "summarize"
    /\ summaries.tasks = <<>>
    /\ PendingLevels = {}
    /\ tpc' = "done"
    /\ UNCHANGED <<kg_entities, kg_relations, algorithm, threshold_selector,
                   dendrogram, hlc, hierarchy, outcome, topic_store,
                   summaries, assign_call>>
    /\ UNCHANGED <<vars_learn, vars_curator, vars_select, vars_kb>>

\* ------------------------------------------------------ TopicManager.assign
MaxAssigns == 1

\* _compute_edge_scores before it normalises: count(DISTINCT neighbor) of the
\* entity's neighbours that belong to the topic.
NeighborCount(store, relations, entity_id, topic_id) ==
    Cardinality(
        {n \in {r.from_id : r \in Range(relations)}
                 \cup {r.to_id : r \in Range(relations)} :
            /\ \E r \in Range(relations) :
                 \/ r.from_id = entity_id /\ r.to_id = n
                 \/ r.to_id = entity_id /\ r.from_id = n
            /\ \E b \in store.BELONGS_TO :
                 b.from_id = n /\ b.to_id = topic_id})

\* _compute_embedding_scores, in percent: 0 for a topic without a summary
\* embedding, else the cosine similarity, floored at 0.
EmbeddingScorePct(name_embedding, topic) ==
    IF topic.summary_embedding = <<>> THEN 0
    ELSE LET dot == Dot(name_embedding, topic.summary_embedding)
             norms2 == Dot(name_embedding, name_embedding)
                       * Dot(topic.summary_embedding, topic.summary_embedding)
             norms == CHOOSE x \in 0..norms2 :
                         x * x <= norms2 /\ (x + 1) * (x + 1) > norms2
         IN IF norms = 0 \/ dot <= 0 THEN 0 ELSE (100 * dot) \div norms

\* The last key, in insertion order, whose score no other exceeds.
ArgMaxLast(keys, score) ==
    keys[CHOOSE i \in 1..Len(keys) :
           /\ \A j \in 1..Len(keys) : score[keys[j]] <= score[keys[i]]
           /\ \A j \in (i + 1)..Len(keys) : score[keys[j]] < score[keys[i]]]

\* max(combined_scores, key=combined_scores.get): the first key, in
\* insertion order, whose score no other exceeds.
ArgMax(keys, score) ==
    keys[CHOOSE i \in 1..Len(keys) :
           /\ \A j \in 1..Len(keys) : score[keys[j]] <= score[keys[i]]
           /\ \A j \in 1..(i - 1) : score[keys[j]] < score[keys[i]]]

\* combined_scores of the detector's assign, times 200 * max_score (or
\* times 200 when no edge score is positive): alpha is 0.5, and the edge
\* scores are divided by their maximum when that is positive.
CombinedScores(store, relations, entity_id, name_embedding, leaf_topics) ==
    LET count == [k \in 1..Len(leaf_topics) |->
                    NeighborCount(store, relations, entity_id,
                                  leaf_topics[k].id)]
        max_score == Max({0} \cup Range(count))
        scale == IF max_score > 0 THEN max_score ELSE 1
    IN [id \in {leaf_topics[k].id : k \in 1..Len(leaf_topics)} |->
          LET k == CHOOSE x \in 1..Len(leaf_topics) : leaf_topics[x].id = id
          IN 100 * count[k]
             + scale * EmbeddingScorePct(name_embedding, leaf_topics[k])]

\* An assign that answers without looking for a leaf topic.
AssignUnchecked(store, relations, entity_id, name_embedding, topics) ==
    [outcome |-> "returned",
     topic_id |-> IF topics = <<>> THEN None ELSE topics[1].id]

\* LouvainDetector.assign and HLCDetector.assign (the same code).
Assign(store, relations, entity_id, name_embedding, topics) ==
    LET leaf_topics == SelectSeq(topics, LAMBDA t : t.level = 0)
    IN IF leaf_topics = <<>>
       THEN [outcome |-> "ValueError", topic_id |-> None]
       ELSE [outcome |-> "returned",
             topic_id |->
                ArgMax([k \in 1..Len(leaf_topics) |-> leaf_topics[k].id],
                       CombinedScores(store, relations, entity_id,
                                      name_embedding, leaf_topics))]

\* TopicManager.assign for an entity of the graph, once a detect has returned
\* or its detector has failed: the topics come from the
\* store in an order the store chooses (the topics above level 0 are put
\* first here, the leaf topics follow in any order); a returned topic id
\* gets its BELONGS_TO edge through bulk_create_relations.
TopicManagerAssign ==
    /\ tpc = "done" \/ (tpc = "failed" /\ outcome # "returned")
    /\ assign_call.n < MaxAssigns
    /\ \E k \in 1..Len(kg_entities) :
         LET upper == {t \in topic_store.Topic : t.level > 0}
             leaves == topic_store.Topic \ upper
             upper_ids == SetToSortedSeq({t.id : t \in upper})
             TopicOf(id) == CHOOSE t \in topic_store.Topic : t.id = id
         IN \E order \in {f \in [1..Cardinality(leaves) -> {t.id : t \in leaves}] :
                            \A a, b \in DOMAIN f : a # b => f[a] # f[b]} :
              LET topics == [a \in 1..Len(upper_ids) |-> TopicOf(upper_ids[a])]
                            \o [a \in DOMAIN order |-> TopicOf(order[a])]
                  answer == Assign(topic_store, kg_relations, kg_entities[k],
                                   Embedding("A1"), topics)
              IN /\ assign_call' =
                      [n |-> assign_call.n + 1, entity |-> kg_entities[k],
                       leaf_topics |-> order, outcome |-> answer.outcome,
                       topic_id |-> answer.topic_id]
                 /\ topic_store' =
                      IF answer.outcome = "returned"
                      THEN [topic_store EXCEPT !.BELONGS_TO =
                              @ \cup {[id |-> 100 + assign_call.n,
                                       from_id |-> kg_entities[k],
                                       to_id |-> answer.topic_id]}]
                      ELSE topic_store
    /\ UNCHANGED <<kg_entities, kg_relations, tpc, algorithm,
                   threshold_selector, dendrogram, hlc, hierarchy, outcome,
                   summaries>>
    /\ UNCHANGED <<vars_learn, vars_curator, vars_select, vars_kb>>

NextDetect ==
    \/ TopicManagerDetect
    \/ DetectTypeError
    \/ LouvainDetect
    \/ HLCDetect
    \/ PersistHierarchy
    \/ GatherLevel
    \/ SummarizeStart
    \/ SummarizeComplete
    \/ SummarizeRaise
    \/ UpdateTopicSummaries
    \/ GenerateSummariesReturn
    \/ TopicManagerAssign

\* The graphs detection is run on: up to MaxNodes entities and up to
\* MaxRelations relations between distinct entities.
InitDetect ==
    /\ graph = EmptyGraph
    /\ graph0 = graph
    /\ LearnIdle
    /\ mongo = {}
    /\ chroma = {}
    /\ CuratorIdle
    /\ \E n \in 0..MaxNodes :
         /\ kg_entities = [i \in 1..n |-> EntityId(0, i)]
         /\ \E rels \in SeqsUpTo({p \in (1..n) \X (1..n) : p[1] # p[2]},
                                  MaxRelations) :
              kg_relations =
                  [k \in 1..Len(rels) |->
                     [id |-> RelationId(0, k),
                      from_id |-> EntityId(0, rels[k][1]),
                      to_id |-> EntityId(0, rels[k][2])]]
    /\ tpc = "idle"
    /\ algorithm = "hlc"
    /\ threshold_selector = None
    /\ dendrogram = <<>>
    /\ hlc = [edge2cid |-> <<>>, linkage |-> <<>>]
    /\ hierarchy = EmptyHierarchy
    /\ outcome = "none"
    /\ topic_store = [Topic |-> {}, IS_SUBTOPIC |-> {}, BELONGS_TO |-> {},
                     topic_id |-> <<>>]
    /\ summaries = [level |-> -1, tasks |-> <<>>]
    /\ assign_call = [n |-> 0, entity |-> None, leaf_topics |-> <<>>,
                      outcome |-> "none", topic_id |-> None]
    /\ SelectIdle
    /\ KbIdle

SpecDetect == InitDetect /\ [][NextDetect]_vars

\* ------------------------------------------------------ threshold selectors
\* Similarities (in percent) and partition densities (in thousandths) of
\* the series given to the selectors.
SimValues == {90, 70, 50, 40, 20, 10}
DValues == {100, 200, 500}

MaxListD == 5
MaxTopK == 2
MaxNumLevels == 2
MaxTargetCount == 3
MaxStar == 3

\* sorted(xs, reverse=True) of values that differ.
Descending(S) ==
    LET up == SetToSortedSeq(S)
    IN [i \in 1..Len(up) |-> up[Len(up) + 1 - i]]

\* scipy.signal.find_peaks(x): a peak is a run of equal samples with a
\* smaller sample on each side; the index returned for it is the middle of
\* the run, rounded down.  The first and the last sample are never peaks.
FindPeaks(x) ==
    {(p[1] + p[2]) \div 2 :
        p \in {q \in (2..(Len(x) - 1)) \X (2..(Len(x) - 1)) :
                 /\ q[1] <= q[2]
                 /\ \A i \in q[1]..q[2] : x[i] = x[q[1]]
                 /\ x[q[1] - 1] < x[q[1]]
                 /\ x[q[2] + 1] < x[q[2]]}}

\* A selection that returns its thresholds in rising order.
LocalMaximaSelectAscending(series, top_k) ==
    LET peak_indices == FindPeaks([i \in 1..Len(series) |-> series[i][2]])
    IN IF Len(series) < 3 THEN <<>>
       ELSE SetToSortedSeq({series[i][1] : i \in peak_indices})

\* LocalMaximaSelector(top_k=top_k).select
LocalMaximaSelect(series, top_k) ==
    LET peak_indices ==
            SetToSortedSeq(FindPeaks([i \in 1..Len(series) |-> series[i][2]]))
        peaks == [j \in 1..Len(peak_indices) |-> series[peak_indices[j]]]
        \* position of a peak in sorted(peaks, key=D, reverse=True), a
        \* stable sort
        Rank(j) == Cardinality({i \in 1..Len(peaks) :
                                  \/ peaks[i][2] > peaks[j][2]
                                  \/ peaks[i][2] = peaks[j][2] /\ i < j})
        kept == IF top_k # None /\ Len(peaks) > top_k
                THEN {j \in 1..Len(peaks) : Rank(j) < top_k}
                ELSE 1..Len(peaks)
    IN IF Len(series) < 3 THEN <<>>
       ELSE Descending({peaks[j][1] : j \in kept})

\* FixedCountSelector(num_levels).select; the bounds of the ranges are
\* compared times num_levels, which keeps them whole numbers.
FixedCountSelect(series, num_levels) ==
    LET similarities == {series[i][1] : i \in 1..Len(series)}
        min_S == CHOOSE x \in similarities : \A y \in similarities : x <= y
        max_S == Max(similarities)
        RangeStart(i) == num_levels * min_S + i * (max_S - min_S)
        InRange(i) ==
            SelectSeq(series,
                      LAMBDA e : /\ RangeStart(i) <= num_levels * e[1]
                                 /\ num_levels * e[1] < RangeStart(i + 1))
        Pool(i) ==
            IF InRange(i) = <<>> /\ i = num_levels - 1
            THEN SelectSeq(series, LAMBDA e : num_levels * e[1] >= RangeStart(i))
            ELSE InRange(i)
        \* max(in_range, key=D): the first of the highest
        Best(in_range) ==
            in_range[CHOOSE a \in 1..Len(in_range) :
                       /\ \A b \in 1..Len(in_range) :
                            in_range[b][2] <= in_range[a][2]
                       /\ \A b \in 1..(a - 1) : in_range[b][2] < in_range[a][2]]
    IN IF series = <<>> \/ num_levels <= 0 THEN <<>>
       ELSE IF min_S = max_S THEN <<min_S>>
       ELSE Descending({Best(Pool(i))[1] :
                          i \in {a \in 0..(num_levels - 1) : Pool(a) # <<>>}})

\* CommunityCountSelector(target_counts).select
CommunityCountSelect(merges, target_counts) ==
    LET num_initial ==
            Max({merges[i][1] : i \in 1..Len(merges)}
                \cup {merges[i][2] : i \in 1..Len(merges)}) + 1
        \* the keys of similarity_to_num_communities in insertion order and
        \* the count each ends with
        all_keys == <<100>> \o [i \in 1..Len(merges) |-> merges[i][3]]
        firsts == SelectSeq([i \in 1..Len(all_keys) |-> i],
                            LAMBDA i : \A j \in 1..(i - 1) :
                                          all_keys[j] # all_keys[i])
        keys == [a \in 1..Len(firsts) |-> all_keys[firsts[a]]]
        Count(similarity) ==
            LET writes == {i \in 1..Len(merges) : merges[i][3] = similarity}
            IN IF writes = {} THEN num_initial ELSE num_initial - Max(writes)
        Diff(similarity, target) ==
            IF Count(similarity) >= target THEN Count(similarity) - target
            ELSE target - Count(similarity)
        Closest(target) ==
            keys[CHOOSE a \in 1..Len(keys) :
                   /\ \A b \in 1..Len(keys) :
                        Diff(keys[a], target) <= Diff(keys[b], target)
                   /\ \A b \in 1..(a - 1) :
                        Diff(keys[a], target) < Diff(keys[b], target)]
    IN IF merges = <<>> THEN <<>>
       ELSE Descending({Closest(target_counts[t]) :
                          t \in 1..Len(target_counts)})

\* The series of a clustering run: one entry for each similarity reached,
\* at falling similarities.
ListDs ==
    UNION {{[i \in 1..Cardinality(S) |-> <<Descending(S)[i], d[i]>>] :
              d \in [1..Cardinality(S) -> DValues]} :
             S \in {T \in SUBSET SimValues : Cardinality(T) <= MaxListD}}

\* The linkages of a graph whose first star edges share a node and whose
\* other edges are apart from them and from each other: the merge orders of
\* the clustering model, at similarities that never rise.
Linkages(star, apart) ==
    LET edge_keys == [i \in 1..star |-> <<0, i>>]
                     \o [i \in 1..apart |-> <<star + 2 * i - 1, star + 2 * i>>]
        initial == [cid \in 0..(star + apart - 1) |-> {edge_keys[cid + 1]}]
    IN UNION {{[i \in 1..Len(merges) |->
                  <<merges[i][1], merges[i][2], similarities[i]>>] :
                 similarities \in
                    {f \in [1..Len(merges) -> SimValues] :
                       \A i \in 1..(Len(merges) - 1) : f[i] >= f[i + 1]}} :
                merges \in MergeOrders(initial, star + apart - 1)}

\* select(list_D, linkage) of the selector.
Select ==
    /\ spc = "idle"
    /\ thresholds' =
         CASE selector.kind = "LocalMaxima" ->
                LocalMaximaSelect(list_D, selector.parameter)
           [] selector.kind = "FixedCount" ->
                FixedCountSelect(list_D, selector.parameter)
           [] selector.kind = "CommunityCount" ->
                CommunityCountSelect(hlc_linkage, selector.parameter)
    /\ spc' = "returned"
    /\ UNCHANGED <<selector, list_D, hlc_linkage, edge_count>>
    /\ UNCHANGED <<vars_learn, vars_curator, vars_detect, vars_kb>>

NextSelect == Select

\* A selector of one of the three kinds and the results of a clustering run
\* it is given: any series with the chain of merges that has its
\* similarities, or any linkage with a series of its similarities.
InitSelect ==
    /\ graph = EmptyGraph
    /\ graph0 = graph
    /\ LearnIdle
    /\ mongo = {}
    /\ chroma = {}
    /\ CuratorIdle
    /\ DetectIdle
    /\ KbIdle
    /\ thresholds = <<>>
    /\ spc = "idle"
    /\ \/ /\ selector \in
               [kind : {"LocalMaxima"}, parameter : {None} \cup 1..MaxTopK]
               \cup [kind : {"FixedCount"}, parameter : 1..MaxNumLevels]
          /\ list_D \in ListDs
          /\ hlc_linkage = [i \in 1..(Len(list_D) - 1) |->
                          <<IF i = 1 THEN 0 ELSE Len(list_D) + i - 2, i,
                            list_D[i + 1][1]>>]
          /\ edge_count = IF list_D = <<>> THEN 0 ELSE Len(list_D)
       \/ /\ selector \in [kind : {"CommunityCount"},
                           parameter : {<<k>> : k \in 1..MaxTargetCount}]
          /\ \E star \in 1..MaxStar, apart \in 0..1 :
               /\ hlc_linkage \in Linkages(star, apart)
               /\ edge_count = star + apart
          /\ list_D = [i \in 1..Cardinality({hlc_linkage[a][3] :
                                                a \in 1..Len(hlc_linkage)}) + 1 |->
                         <<(<<100>> \o Descending({hlc_linkage[a][3] :
                                             a \in 1..Len(hlc_linkage)}))[i], 100>>]

SpecSelect == InitSelect /\ [][NextSelect]_vars

\* ------------------------------------------------------- C15 .. C20
\* The detector has built the topics and relations of its hierarchy.
HierarchyBuilt ==
    \/ tpc \in {"persist", "summarize", "done"}
    \/ tpc = "failed" /\ outcome = "ValidationError"

TopicIds == {hierarchy.topics[k].id : k \in 1..Len(hierarchy.topics)}

TopicLevel(id) ==
    LET k == CHOOSE i \in 1..Len(hierarchy.topics) : hierarchy.topics[i].id = id
    IN hierarchy.topics[k].level

\* The subtopic relations whose child is the topic.
ParentEdges(id) ==
    {j \in 1..Len(hierarchy.subtopic_relations) :
        hierarchy.subtopic_relations[j].from_id = id}

SubtopicEdges ==
    {<<hierarchy.subtopic_relations[j].from_id,
       hierarchy.subtopic_relations[j].to_id>> :
        j \in 1..Len(hierarchy.subtopic_relations)}

\* A directed graph has a cycle exactly when some non-empty set of its nodes
\* has, for each of its members, an edge to a member.
Acyclic(nodes, edges) ==
    \A C \in SUBSET nodes :
        C # {} => \E n \in C : \A m \in C : <<n, m>> \notin edges

C17_EmptyInputReturnsEmpty ==
    (/\ tpc \notin {"idle", "detect"}
     /\ threshold_selector = None
     /\ (kg_entities = <<>> \/ kg_relations = <<>>))
        => /\ outcome = "returned"
           /\ hierarchy = EmptyHierarchy

\* The level-0 topic a Louvain hierarchy puts the entity in.
LeafTopicsOf(entity_id) ==
    {hierarchy.belongs_to_relations[j].to_id :
        j \in {i \in 1..Len(hierarchy.belongs_to_relations) :
                 hierarchy.belongs_to_relations[i].from_id = entity_id}}

\* C18: the level-0 topics of a Louvain hierarchy are the communities of
\* the first (finest) level of the dendrogram: there are as many, every
\* entity has one membership edge, and two entities share their level-0
\* topic exactly when the finest partition puts them in one community.
C18_LevelZeroIsFinest ==
    (HierarchyBuilt /\ algorithm = "louvain" /\ hierarchy.num_levels > 0) =>
        /\ Cardinality({id \in TopicIds : TopicLevel(id) = 0})
             = NumCommunities(dendrogram[1])
        /\ \A e \in Range(kg_entities) :
             Cardinality({i \in 1..Len(hierarchy.belongs_to_relations) :
                 hierarchy.belongs_to_relations[i].from_id = e}) = 1
        /\ \A e1 \in Range(kg_entities), e2 \in Range(kg_entities) :
             (LeafTopicsOf(e1) = LeafTopicsOf(e2))
                 <=> (dendrogram[1][e1] = dendrogram[1][e2])

\* C19: detection with a threshold selector returns a hierarchy with as
\* many levels as the selector chose thresholds.
C19_OneLevelPerThreshold ==
    (/\ tpc \notin {"idle", "detect"}
     /\ algorithm = "hlc"
     /\ threshold_selector # None)
        => /\ outcome = "returned"
           /\ hierarchy.num_levels = threshold_selector

\* The level-0 topic of the edge community that contains the relation's edge.
LeafTopicOfEdge(relation) ==
    LET cids == SetToSortedSeq({hlc.edge2cid[e] : e \in DOMAIN hlc.edge2cid})
    IN TopicId(CHOOSE k \in 1..Len(cids) :
                  cids[k] = hlc.edge2cid[EdgeOf(relation)])

StoredSummary(id) == (CHOOSE t \in topic_store.Topic : t.id = id).summary

AssignEnded == assign_call'.n = assign_call.n + 1

\* The combined score of the supplied leaf topic, on the store the call read.
ScoreOf(id) ==
    LET order == assign_call'.leaf_topics
    IN CombinedScores(topic_store, kg_relations, assign_call'.entity,
                      Embedding("A1"),
                      [a \in DOMAIN order |->
                         CHOOSE t \in topic_store.Topic : t.id = order[a]])[id]

C23_NoLeafTopicNoEdge ==
    [][(AssignEnded /\ \A t \in topic_store.Topic : t.level # 0) =>
         /\ assign_call'.outcome = "ValueError"
         /\ topic_store' = topic_store]_vars

\* A failed assign after a detect that returned an empty hierarchy for a
\* graph with entities.
C23_Witness ==
    /\ tpc = "done"
    /\ assign_call.outcome = "ValueError"
    /\ assign_call.entity \in Range(kg_entities)
    /\ topic_store.Topic = {}
    /\ topic_store.BELONGS_TO = {}

LiveAt(s) ==
    edge_count - Cardinality({i \in 1..Len(hlc_linkage) : hlc_linkage[i][3] >= s})

\* C24: for a non-empty linkage CommunityCountSelector([k]).select returns
\* one threshold s, and no similarity of the linkage leaves a number of live
\* communities closer to k than s does.
C24_ClosestCommunityCount ==
    (spc = "returned" /\ selector.kind = "CommunityCount" /\ hlc_linkage # <<>>)
        => /\ Len(thresholds) = 1
           /\ LET k == selector.parameter[1]
                  Off(s) == IF LiveAt(s) >= k THEN LiveAt(s) - k
                            ELSE k - LiveAt(s)
              IN \A i \in 1..Len(hlc_linkage) :
                    Off(thresholds[1]) <= Off(hlc_linkage[i][3])

\* The entries of the series in the i-th (from 0) of the N equal ranges
\* that cover the similarities from the lowest to the highest.
InBin(i) ==
    LET N == selector.parameter
        similarities == {list_D[a][1] : a \in 1..Len(list_D)}
        lo == CHOOSE x \in similarities : \A y \in similarities : x <= y
        hi == Max(similarities)
    IN {a \in 1..Len(list_D) :
          /\ N * lo + i * (hi - lo) <= N * list_D[a][1]
          /\ IF i = N - 1 THEN N * list_D[a][1] <= N * hi
             ELSE N * list_D[a][1] < N * lo + (i + 1) * (hi - lo)}

\* C25: for a non-empty series FixedCountSelector(N).select returns at most
\* N thresholds, and for every range with an entry exactly one threshold of
\* that range, the similarity of an entry whose D is the highest of the
\* range.
C25_OneBestPerBin ==
    (spc = "returned" /\ selector.kind = "FixedCount" /\ list_D # <<>>)
        => /\ Len(thresholds) <= selector.parameter
           /\ \A i \in 0..(selector.parameter - 1) :
                InBin(i) # {} =>
                  /\ Cardinality({t \in 1..Len(thresholds) :
                        \E a \in InBin(i) : list_D[a][1] = thresholds[t]}) = 1
                  /\ \E a \in InBin(i) :
                       /\ \E t \in 1..Len(thresholds) :
                            thresholds[t] = list_D[a][1]
                       /\ \A b \in InBin(i) : list_D[b][2] <= list_D[a][2]

\* What the claims on LocalMaximaSelector(top_k=K) share: given the entries
\* that count as peaks, the thresholds are similarities of peaks in falling
\* order, at most K of them, no omitted peak has a higher D than a returned
\* one, the series of the scenario gives <<70>> for K = 1, and a series of
\* fewer than three entries gives nothing.
LocalMaximaContract(peaks) ==
    (spc = "returned" /\ selector.kind = "LocalMaxima")
        => /\ \A t \in 1..(Len(thresholds) - 1) : thresholds[t] > thresholds[t + 1]
           /\ \A t \in 1..Len(thresholds) :
                \E i \in peaks : list_D[i][1] = thresholds[t]
           /\ selector.parameter # None =>
                /\ Len(thresholds) <= selector.parameter
                /\ \A i \in peaks, j \in peaks :
                     (/\ list_D[i][1] \in Range(thresholds)
                      /\ list_D[j][1] \notin Range(thresholds))
                        => list_D[j][2] <= list_D[i][2]
           /\ (list_D = <<<<90, 100>>, <<70, 500>>, <<50, 200>>>>
               /\ selector.parameter = 1) => thresholds = <<70>>
           /\ Len(list_D) < 3 => thresholds = <<>>

\* C26, as stated: a peak is an entry whose D is greater than the D of the
\* entry before it and of the entry after it.
C26_StrictPeaksOnly ==
    LocalMaximaContract({i \in 2..(Len(list_D) - 1) :
                           /\ list_D[i][2] > list_D[i - 1][2]
                           /\ list_D[i][2] > list_D[i + 1][2]})

\* C26, amended: a peak is the middle entry (rounded down) of a run of
\* entries of equal D with a smaller D before and after the run.
C26_PlateauPeaks ==
    LocalMaximaContract(
        {i \in 2..(Len(list_D) - 1) :
           \E l \in 2..i, r \in i..(Len(list_D) - 1) :
              /\ i = (l + r) \div 2
              /\ \A a \in l..r : list_D[a][2] = list_D[i][2]
              /\ list_D[l - 1][2] < list_D[i][2]
              /\ list_D[r + 1][2] < list_D[i][2]})

\* The cap applies: of two peaks the one with the higher D, found at the
\* lower similarity, is the only threshold returned for K = 1.
C26_Witness ==
    /\ spc = "returned"
    /\ selector = [kind |-> "LocalMaxima", parameter |-> 1]
    /\ Len(list_D) = 5
    /\ list_D[2][2] > list_D[1][2] /\ list_D[2][2] > list_D[3][2]
    /\ list_D[4][2] > list_D[3][2] /\ list_D[4][2] > list_D[5][2]
    /\ list_D[4][2] > list_D[2][2]
    /\ thresholds = <<list_D[4][1]>>

====
